---- MODULE Spec2Model ----
(***************************************************************************)
(* A model of parts of the daisy workflow engine:                          *)
(*   - the subnetwork registry's connection bookkeeping                    *)
(*     (subnetwork.go: regConnect, regDisconnect, regDisconnectAll);       *)
(*   - the compute client's retry wrapper                                  *)
(*     (compute/compute.go: Retry, shouldRetryWithWait; RetryBeta and      *)
(*     RetryAlpha are the same loop over another operation type).          *)
(*   - the compute client's operation wait                                 *)
(*     (compute/compute.go: operationsWaitHelper);                         *)
(*   - the WaitForAvailableQuotas step (populate, validate, run);          *)
(*   - the Suspend, Resume and SetMachineType steps;                       *)
(*   - the validation of a subnetwork to create (subnetwork.go: validate); *)
(*   - the scheduler walking the dependency graph and the auto-cleanup;    *)
(*   - the compute client's methods that retry once                        *)
(*     (compute/compute.go: GetRegion, ListSubnetworks, Suspend, Resume).  *)
(* Each part has its own specification (RegistrySpec, RetrySpec,           *)
(* OpWaitSpec, QuotaPayloadSpec, QuotaRunSpec, QuotaRunFairSpec, StepSpec, *)
(* SubnetSpec, StepWaitSpec, SchedSpec, SingleRetrySpec); the variables of *)
(* the other parts stay at their initial values.                           *)
(***************************************************************************)
EXTENDS Integers, Sequences, FiniteSets, TLC

VARIABLES
    Dependencies,   \* Workflow.Dependencies: step name -> set of step names
    connections,    \* subnetworkRegistry.connections: nName -> (iName -> record pointer)
    heap,           \* the subnetworkConnection objects allocated so far, by pointer
    regCall,        \* the last registry call: operation, arguments and returned error
    ncalls,         \* number of registry calls made
    tripper,        \* c.hc.Transport: an *oauth2.Transport or another RoundTripper
    rpc,            \* position of the Retry call
    attempt,        \* Retry's loop variable i
    ferr,           \* what the last invocation of f returned
    decision,       \* the last shouldRetryWithWait call: inputs and outcome
    log,            \* invocations of f and sleeps, in order
    result,         \* what Retry returned
    opPc,           \* position of operationsWaitHelper
    opSeen,         \* what getOperation answered, poll by poll
    opSleeps,       \* the sleeps of operationsWaitHelper, in milliseconds
    opResult,       \* what operationsWaitHelper returned
    opServer,       \* the operation a client call started, as the API has it
    aq,             \* the WaitForAvailableQuotas payload
    aqPc,           \* how far the payload got: new, populated, validated
    aqErr,          \* the DError of the last populate / validate
    qPc,            \* position of WaitForAvailableQuotas.run
    qCancel,        \* s.w.Cancel is closed
    qCtx,           \* the step context: live, deadline (exceeded) or canceled
    qIdx,           \* index of the quota entry the running tick is at
    qCount,         \* len(successmsgs) of the running tick
    qSat,           \* the entries the data read in the running tick satisfies
    qAvail,         \* some finished tick read data with every entry available
    qFetches,       \* GetRegion calls made
    qTicks,         \* ticks received
    qResult,        \* what run returned
    wf,             \* the workflow's Project and Zone
    st,             \* a Suspend / Resume / SetMachineType step payload
    instances,      \* the instance registry: daisy name -> link
    stPopulated,    \* times populate ran on the step
    stCall,         \* the last of populate / validate / run, with its DError
    apiLog,         \* the compute client calls made by run
    sn,             \* a Subnetwork of a CreateSubnetworks step
    snPc,           \* whether validate ran on the subnetwork
    snErrs,         \* the errors validate returned
    snReg,          \* the daisy names with a registered subnetwork creation
    schPc,          \* the workflow run: idle, run, cleanup or done
    stepState,      \* each step: Ready, Running, Done, Failed or Skipped
    wfErrs,         \* the errors the scheduler recorded, in order
    resources,      \* the resources the workflow's steps registered
    site            \* the client method being called and its page

regVars == <<Dependencies, connections, heap, regCall, ncalls>>

retryVars == <<tripper, rpc, attempt, ferr, decision, log, result>>

opVars == <<opPc, opSeen, opSleeps, opResult, opServer>>

payloadVars == <<aq, aqPc, aqErr>>

quotaVars == <<qPc, qCancel, qCtx, qIdx, qCount, qSat, qAvail, qFetches, qTicks, qResult>>

stepVars == <<wf, st, instances, stPopulated, stCall, apiLog>>

subnetVars == <<sn, snPc, snErrs, snReg>>

schedVars == <<schPc, stepState, wfErrs, resources>>

siteVars == <<site>>

vars == <<Dependencies, connections, heap, regCall, ncalls,
          tripper, rpc, attempt, ferr, decision, log, result,
          opPc, opSeen, opSleeps, opResult, opServer,
          aq, aqPc, aqErr,
          qPc, qCancel, qCtx, qIdx, qCount, qSat, qAvail, qFetches, qTicks, qResult,
          wf, st, instances, stPopulated, stCall, apiLog,
          sn, snPc, snErrs, snReg,
          schPc, stepState, wfErrs, resources, site>>

\* The variables outside the registry, and outside the retry wrapper.
notRegVars == <<retryVars, opVars, payloadVars, quotaVars, stepVars, subnetVars,
    schedVars, siteVars>>

notRetryVars == <<regVars, opVars, payloadVars, quotaVars, stepVars, subnetVars,
    schedVars, siteVars>>

notOpVars == <<regVars, retryVars, payloadVars, quotaVars, stepVars, subnetVars,
    schedVars, siteVars>>

notPayloadVars == <<regVars, retryVars, opVars, quotaVars, stepVars, subnetVars,
    schedVars, siteVars>>

notQuotaVars == <<regVars, retryVars, opVars, payloadVars, stepVars, subnetVars,
    schedVars, siteVars>>

notStepVars == <<regVars, retryVars, opVars, payloadVars, quotaVars, subnetVars,
    schedVars, siteVars>>

notSubnetVars == <<regVars, retryVars, opVars, payloadVars, quotaVars, stepVars,
    schedVars, siteVars>>

\* The single-retry call sites use the variables of the retry wrapper.
notSiteVars == <<regVars, opVars, payloadVars, quotaVars, stepVars, subnetVars,
    schedVars>>

\* The scheduler reads Dependencies and the workflow's Cancel.
notSchedVars == <<connections, heap, regCall, ncalls, retryVars, opVars,
    payloadVars, qPc, qCtx, qIdx, qCount, qSat, qAvail, qFetches, qTicks,
    qResult, stepVars, subnetVars, siteVars>>

(***************************************************************************)
(* Steps, subnetworks, instances                                           *)
(***************************************************************************)

\* The steps of the workflow being validated.
Steps == {"S1", "S2", "S3"}

\* A nil *Step.
NoStep == "nil"

\* Subnetwork and instance names offered to the registry.
Subnets == {"n1", "n2"}

Insts == {"i1", "i2"}

\* Registry calls made in one behaviour.
MaxCalls == 3

\* The order in which the steps are written; a step's dependencies are
\* drawn from the steps before it, which keeps the graph acyclic.
StepOrder == <<"S1", "S2", "S3">>

StepIndex(s) == CHOOSE k \in 1..Len(StepOrder) : StepOrder[k] = s

\* The acyclic dependency maps over Steps.
DependencyMaps ==
    { d \in [Steps -> SUBSET Steps] :
        \A s \in Steps : \A t \in d[s] : StepIndex(t) < StepIndex(s) }

\* The steps reachable from s by following Dependencies at most k times.
RECURSIVE Reach(_, _)
Reach(from, k) ==
    IF k = 0 THEN from
    ELSE Reach(from \cup UNION { Dependencies[t] : t \in from }, k - 1)

\* Step.nestedDepends(other): s transitively depends on other; no step
\* depends on a nil step.  (Within one workflow; the closure is the
\* reflexive-transitive closure of Dependencies.)
nestedDepends(s, other) ==
    /\ s # NoStep
    /\ other # NoStep
    /\ other \in Reach({s}, Cardinality(Steps))

(***************************************************************************)
(* Errors                                                                  *)
(***************************************************************************)

\* A nil DError.
NoErr == [msg |-> "nil", steps |-> <<>>]

\* Errf(format, args...): an error carrying the formatted message; the
\* message is kept as its fixed text and the step names it quotes, in order.
Errf(msg, steps) == [msg |-> msg, steps |-> steps]

\* The step names an error message quotes.
ErrRefs(e) == { e.steps[k] : k \in 1..Len(e.steps) }

(***************************************************************************)
(* subnetworkRegistry                                                      *)
(***************************************************************************)

\* A fresh subnetworkConnection{connector: s}.
NewConnection(s) == [connector |-> s, disconnector |-> NoStep]

\* im[iName] of nr.connections[nName]: the record pointer, 0 for nil.
ConnPtr(conns, nName, iName) ==
    IF nName \in DOMAIN conns /\ iName \in DOMAIN conns[nName]
    THEN conns[nName][iName]
    ELSE 0

\* m[k] = v on a Go map.
MapSet(m, k, v) == [x \in DOMAIN m \cup {k} |-> IF x = k THEN v ELSE m[x]]

\* disconnectHelper with the check of an existing disconnector left out.
DisconnectHelperNoDiscCheck(nName, iName, s, conns, hp) ==
    LET p == ConnPtr(conns, nName, iName) IN
    IF nName \notin DOMAIN conns
    THEN [err |-> Errf("not connected", <<s>>), heap |-> hp]
    ELSE IF p = 0
    THEN [err |-> Errf("not attached", <<s>>), heap |-> hp]
    ELSE IF ~nestedDepends(s, hp[p].connector)
    THEN [err |-> Errf("does not depend on connecting step", <<s, s, hp[p].connector>>),
          heap |-> hp]
    ELSE [err |-> NoErr,
          heap |-> [hp EXCEPT ![p].disconnector = s]]

\* disconnectHelper with the dependency check left out.
DisconnectHelperNoDepCheck(nName, iName, s, conns, hp) ==
    LET p == ConnPtr(conns, nName, iName) IN
    IF nName \notin DOMAIN conns
    THEN [err |-> Errf("not connected", <<s>>), heap |-> hp]
    ELSE IF p = 0
    THEN [err |-> Errf("not attached", <<s>>), heap |-> hp]
    ELSE IF hp[p].disconnector # NoStep
    THEN [err |-> Errf("already disconnected or concurrently disconnected by step",
                       <<s, hp[p].disconnector>>),
          heap |-> hp]
    ELSE [err |-> NoErr,
          heap |-> [hp EXCEPT ![p].disconnector = s]]

\* disconnectHelper(nName, iName, s): the returned error and the heap after
\* the call (nr.testDisconnectHelper is nil outside the tests).
disconnectHelper(nName, iName, s, conns, hp) ==
    LET p == ConnPtr(conns, nName, iName) IN
    IF nName \notin DOMAIN conns
    THEN [err |-> Errf("not connected", <<s>>), heap |-> hp]
    ELSE IF p = 0
    THEN [err |-> Errf("not attached", <<s>>), heap |-> hp]
    ELSE IF hp[p].disconnector # NoStep
    THEN [err |-> Errf("already disconnected or concurrently disconnected by step",
                       <<s, hp[p].disconnector>>),
          heap |-> hp]
    ELSE IF ~nestedDepends(s, hp[p].connector)
    THEN [err |-> Errf("does not depend on connecting step", <<s, s, hp[p].connector>>),
          heap |-> hp]
    ELSE [err |-> NoErr,
          heap |-> [hp EXCEPT ![p].disconnector = s]]

\* regConnect that always stores a fresh record.
RegConnectNoCheck(nName, iName, s, conns, hp) ==
    [err |-> NoErr,
     conns |-> MapSet(conns, nName,
                      MapSet(IF nName \in DOMAIN conns THEN conns[nName] ELSE <<>>,
                             iName, Len(hp) + 1)),
     heap |-> Append(hp, NewConnection(s))]

\* regConnect whose error names the disconnecting step of the record.
RegConnectNamesDisconnector(nName, iName, s, conns, hp) ==
    LET p == ConnPtr(conns, nName, iName) IN
    IF nName \notin DOMAIN conns
    THEN [err |-> NoErr,
          conns |-> MapSet(conns, nName, MapSet(<<>>, iName, Len(hp) + 1)),
          heap |-> Append(hp, NewConnection(s))]
    ELSE IF p # 0 /\ ~nestedDepends(s, hp[p].disconnector)
    THEN [err |-> Errf("concurrently connected by step", <<s, hp[p].disconnector>>),
          conns |-> conns,
          heap |-> hp]
    ELSE [err |-> NoErr,
          conns |-> MapSet(conns, nName, MapSet(conns[nName], iName, Len(hp) + 1)),
          heap |-> Append(hp, NewConnection(s))]

\* regConnect that starts the subnetwork's map afresh on every success.
RegConnectResetsSubnet(nName, iName, s, conns, hp) ==
    LET p == ConnPtr(conns, nName, iName) IN
    IF p # 0 /\ ~nestedDepends(s, hp[p].disconnector)
    THEN [err |-> Errf("concurrently connected by step", <<s, hp[p].connector>>),
          conns |-> conns,
          heap |-> hp]
    ELSE [err |-> NoErr,
          conns |-> MapSet(conns, nName, MapSet(<<>>, iName, Len(hp) + 1)),
          heap |-> Append(hp, NewConnection(s))]

\* regConnect(nName, iName, s): the returned error, the map and the heap
\* after the call.
regConnectResult(nName, iName, s, conns, hp) ==
    LET p == ConnPtr(conns, nName, iName) IN
    IF nName \notin DOMAIN conns
    THEN [err |-> NoErr,
          conns |-> MapSet(conns, nName, MapSet(<<>>, iName, Len(hp) + 1)),
          heap |-> Append(hp, NewConnection(s))]
    ELSE IF p # 0 /\ ~nestedDepends(s, hp[p].disconnector)
    THEN [err |-> Errf("concurrently connected by step", <<s, hp[p].connector>>),
          conns |-> conns,
          heap |-> hp]
    ELSE [err |-> NoErr,
          conns |-> MapSet(conns, nName, MapSet(conns[nName], iName, Len(hp) + 1)),
          heap |-> Append(hp, NewConnection(s))]

\* The subnetworks whose connection with iName regDisconnectAll visits:
\* a record exists and has no disconnector.
LiveSubnets(iName, conns, hp) ==
    { n \in DOMAIN conns :
        ConnPtr(conns, n, iName) # 0
        /\ hp[ConnPtr(conns, n, iName)].disconnector = NoStep }

\* regDisconnectAll that stops after the first subnetwork it visits.
DisconnectEachFirstOnly(todo, iName, s, conns, hp) ==
    IF todo = {} THEN hp
    ELSE LET n == CHOOSE x \in todo : TRUE IN
         disconnectHelper(n, iName, s, conns, hp).heap

\* The heap after regDisconnectAll has called disconnectHelper for each
\* subnetwork of the set todo (the calls touch distinct records).
RECURSIVE DisconnectEach(_, _, _, _, _)
DisconnectEach(todo, iName, s, conns, hp) ==
    IF todo = {} THEN hp
    ELSE LET n == CHOOSE x \in todo : TRUE IN
         DisconnectEach(todo \ {n}, iName, s, conns,
                        disconnectHelper(n, iName, s, conns, hp).heap)

\* regDisconnectAll keeps only the error of the helper call made last
\* (errs = addErrs(helper result)); the map is ranged over in any order, so
\* any visited subnetwork can be the last one.
regDisconnectAllErrs(iName, s, conns, hp) ==
    IF LiveSubnets(iName, conns, hp) = {} THEN {NoErr}
    ELSE { disconnectHelper(n, iName, s, conns, hp).err :
             n \in LiveSubnets(iName, conns, hp) }

(***************************************************************************)
(* Registry actions                                                        *)
(***************************************************************************)

\* newSubnetworkRegistry: no connections.
RegistryEmpty ==
    /\ connections = <<>>
    /\ heap = <<>>
    /\ regCall = [op |-> "none", nName |-> "", iName |-> "", s |-> NoStep, err |-> NoErr]
    /\ ncalls = 0

\* No Retry call is running.
RetryIdle ==
    /\ tripper = "plain"
    /\ rpc = "idle"
    /\ attempt = 0
    /\ ferr = [op |-> "nil", err |-> [nil |-> TRUE, api |-> FALSE, code |-> 0, text |-> {}]]
    /\ decision = [called |-> FALSE]
    /\ log = <<>>
    /\ result = [returned |-> FALSE]

\* operationsWaitHelper is not running.
OpIdle ==
    /\ opPc = "idle"
    /\ opSeen = <<>>
    /\ opSleeps = <<>>
    /\ opResult = [returned |-> FALSE]
    /\ opServer = [Status |-> "none"]

\* No WaitForAvailableQuotas payload is being populated or validated.
PayloadIdle ==
    /\ aqPc = "idle"
    /\ aqErr = [kind |-> "nil", msg |-> "nil"]

\* WaitForAvailableQuotas.run is not running.
QuotaIdle ==
    /\ qPc = "idle"
    /\ qCancel = FALSE
    /\ qCtx = "live"
    /\ qIdx = 0
    /\ qCount = 0
    /\ qSat = {}
    /\ qAvail = FALSE
    /\ qFetches = 0
    /\ qTicks = 0
    /\ qResult = [returned |-> FALSE]

\* No Suspend / Resume / SetMachineType step is handled.
StepIdle ==
    /\ wf = [Project |-> "", Zone |-> ""]
    /\ st = [type |-> "none"]
    /\ instances = <<>>
    /\ stPopulated = 0
    /\ stCall = [op |-> "none"]
    /\ apiLog = <<>>

\* No subnetwork is being validated.
SubnetIdle ==
    /\ sn = [daisyName |-> ""]
    /\ snPc = "idle"
    /\ snErrs = <<>>
    /\ snReg = {}

\* No workflow is being run.
SchedIdle ==
    /\ schPc = "idle"
    /\ stepState = [s \in Steps |-> "Ready"]
    /\ wfErrs = <<>>
    /\ resources = <<>>

\* No single-retry method of the client is being called.
SiteIdle ==
    /\ site = [kind |-> "none", page |-> 0]

\* The payload of an idle WaitForAvailableQuotas step.
NoPayload == [Interval |-> "", parsedInterval |-> 0, Quotas |-> <<>>]

RegInit ==
    /\ Dependencies \in DependencyMaps
    /\ RegistryEmpty
    /\ RetryIdle
    /\ OpIdle
    /\ aq = NoPayload
    /\ PayloadIdle
    /\ QuotaIdle
    /\ StepIdle
    /\ SubnetIdle
    /\ SchedIdle
    /\ SiteIdle

RegConnect(nName, iName, s) ==
    /\ ncalls < MaxCalls
    /\ LET r == regConnectResult(nName, iName, s, connections, heap) IN
        /\ connections' = r.conns
        /\ heap' = r.heap
        /\ regCall' = [op |-> "regConnect", nName |-> nName, iName |-> iName,
                       s |-> s, err |-> r.err]
    /\ ncalls' = ncalls + 1
    /\ UNCHANGED <<Dependencies, notRegVars>>

RegDisconnect(nName, iName, s) ==
    /\ ncalls < MaxCalls
    /\ LET r == disconnectHelper(nName, iName, s, connections, heap) IN
        /\ heap' = r.heap
        /\ regCall' = [op |-> "regDisconnect", nName |-> nName, iName |-> iName,
                       s |-> s, err |-> r.err]
    /\ ncalls' = ncalls + 1
    /\ UNCHANGED <<Dependencies, connections, notRegVars>>

RegDisconnectAll(iName, s) ==
    /\ ncalls < MaxCalls
    /\ heap' = DisconnectEach(LiveSubnets(iName, connections, heap), iName, s,
                              connections, heap)
    /\ \E e \in regDisconnectAllErrs(iName, s, connections, heap) :
         regCall' = [op |-> "regDisconnectAll", nName |-> "", iName |-> iName,
                     s |-> s, err |-> e]
    /\ ncalls' = ncalls + 1
    /\ UNCHANGED <<Dependencies, connections, notRegVars>>

RegNext ==
    \/ \E n \in Subnets, i \in Insts, s \in Steps : RegConnect(n, i, s)
    \/ \E n \in Subnets, i \in Insts, s \in Steps : RegDisconnect(n, i, s)
    \/ \E i \in Insts, s \in Steps : RegDisconnectAll(i, s)

RegistrySpec == RegInit /\ [][RegNext]_vars

(***************************************************************************)
(* Properties of the registry                                              *)
(***************************************************************************)

\* A registry call was made in this step.
RegCalled(op) == ncalls' = ncalls + 1 /\ regCall'.op = op

\* The record of the pair the last call named, in the current state.
CallPtr == ConnPtr(connections, regCall.nName, regCall.iName)

\* C1: regDisconnect(n, i, s) returns no error exactly when a record for
\* (n, i) exists, that record has no disconnector and s transitively depends
\* on its connector; then the record's disconnector becomes s, and in every
\* other case an error is returned.
C1_RegDisconnectContract ==
    [][ RegCalled("regDisconnect") =>
          LET n == regCall'.nName
              i == regCall'.iName
              s == regCall'.s
              p == ConnPtr(connections, n, i)
              ok == /\ p # 0
                    /\ heap[p].disconnector = NoStep
                    /\ nestedDepends(s, heap[p].connector)
          IN  /\ (regCall'.err = NoErr) <=> ok
              /\ ok => heap'[p].disconnector = s ]_vars

\* A regDisconnect that succeeded: the record of its pair has the calling
\* step as disconnector.
C1_Witness ==
    /\ regCall.op = "regDisconnect"
    /\ regCall.err = NoErr
    /\ CallPtr # 0
    /\ heap[CallPtr].disconnector = regCall.s

\* C2: a connection record accepts at most one disconnector: over every
\* regConnect, regDisconnect and regDisconnectAll call a record stays
\* allocated, a disconnector once set is never changed, and a regDisconnect
\* of a record that has a disconnector returns an error.
C2_ConnectionMonotonicity ==
    [][ /\ Len(heap') >= Len(heap)
        /\ \A p \in 1..Len(heap) :
             heap[p].disconnector # NoStep
               => heap'[p].disconnector = heap[p].disconnector
        /\ RegCalled("regDisconnect") =>
             LET p == ConnPtr(connections, regCall'.nName, regCall'.iName) IN
             (p # 0 /\ heap[p].disconnector # NoStep) => regCall'.err # NoErr ]_vars

\* A second disconnect of a record was rejected although the caller depends
\* on the connector.
C2_Witness ==
    /\ regCall.op = "regDisconnect"
    /\ regCall.err # NoErr
    /\ CallPtr # 0
    /\ heap[CallPtr].disconnector # NoStep
    /\ nestedDepends(regCall.s, heap[CallPtr].connector)

\* Every record without a disconnector is the current record of a pair.
LiveRecordsAreCurrent ==
    \A p \in 1..Len(heap) :
        heap[p].disconnector = NoStep
          => \E n \in DOMAIN connections : \E i \in DOMAIN connections[n] :
               connections[n][i] = p

\* No record is the current record of two pairs.
PairsHaveOwnRecords ==
    \A n1 \in DOMAIN connections, n2 \in DOMAIN connections :
      \A i1 \in DOMAIN connections[n1], i2 \in DOMAIN connections[n2] :
        connections[n1][i1] = connections[n2][i2] => (n1 = n2 /\ i1 = i2)

\* C3: regConnect(n, i, s) returns an error and stores nothing whenever a
\* record for (n, i) exists and s does not transitively depend on its
\* disconnector, in particular whenever that record is live; so a pair never
\* has two live records.
C3_RegConnectRejects ==
    /\ [](LiveRecordsAreCurrent /\ PairsHaveOwnRecords)
    /\ [][ RegCalled("regConnect") =>
             LET p == ConnPtr(connections, regCall'.nName, regCall'.iName) IN
             /\ (p # 0 /\ ~nestedDepends(regCall'.s, heap[p].disconnector))
                  => (regCall'.err # NoErr /\ heap' = heap
                      /\ connections' = connections)
             /\ (p # 0 /\ heap[p].disconnector = NoStep)
                  => regCall'.err # NoErr ]_vars

\* A regConnect by another step was rejected while the pair's record is live.
C3_Witness ==
    /\ regCall.op = "regConnect"
    /\ regCall.err # NoErr
    /\ CallPtr # 0
    /\ heap[CallPtr].disconnector = NoStep
    /\ heap[CallPtr].connector # regCall.s

\* The state after the third registration of the disconnect-ordering
\* scenario: the pair's record was connected by one step and disconnected by
\* a second, and a third step that does not depend on the second has just
\* called regConnect for the pair.
C4_Scenario ==
    /\ regCall.op = "regConnect"
    /\ CallPtr # 0
    /\ heap[CallPtr].disconnector # NoStep
    /\ ~nestedDepends(regCall.s, heap[CallPtr].disconnector)

\* C4 as claimed: in the scenario the registration fails with an error that
\* references the disconnecting step.
C4_ErrorNamesDisconnector ==
    C4_Scenario =>
        /\ regCall.err # NoErr
        /\ heap[CallPtr].disconnector \in ErrRefs(regCall.err)

\* C4: in the scenario the registration fails, and the error is
\* "concurrently connected by step" quoting the calling step and the
\* record's connecting step, nothing else.
C4_ErrorNamesConnector ==
    C4_Scenario =>
        /\ regCall.err # NoErr
        /\ regCall.err = Errf("concurrently connected by step",
                              <<regCall.s, heap[CallPtr].connector>>)

\* The scenario with three distinct steps S1, S2, S3.
C4_Witness ==
    /\ C4_Scenario
    /\ heap[CallPtr].connector # heap[CallPtr].disconnector
    /\ regCall.s \notin {heap[CallPtr].connector, heap[CallPtr].disconnector}
    /\ regCall.err # NoErr

\* C5 as claimed: after regDisconnectAll(i, s) either every connection of i
\* that was live has disconnector s, or no record was changed.
C5_AllOrNothing ==
    [][ RegCalled("regDisconnectAll") =>
          LET i == regCall'.iName
              s == regCall'.s
              live == LiveSubnets(i, connections, heap)
          IN  \/ \A n \in live : heap'[connections[n][i]].disconnector = s
              \/ heap' = heap ]_vars

\* C5: regDisconnectAll(i, s) makes s the disconnector of exactly those live
\* connections of i whose connector s transitively depends on; every other
\* record, and the map, is left as it was.
C5_DisconnectAllPerConnection ==
    [][ RegCalled("regDisconnectAll") =>
          LET i == regCall'.iName
              s == regCall'.s
              live == LiveSubnets(i, connections, heap)
              ptrs == { connections[n][i] : n \in live }
          IN  /\ connections' = connections
              /\ Len(heap') = Len(heap)
              /\ \A p \in 1..Len(heap) :
                   /\ heap'[p].connector = heap[p].connector
                   /\ heap'[p].disconnector =
                        IF p \in ptrs /\ nestedDepends(s, heap[p].connector)
                        THEN s
                        ELSE heap[p].disconnector ]_vars

\* regDisconnectAll disconnected one connection of the instance and left
\* another one live.
C5_Witness ==
    /\ regCall.op = "regDisconnectAll"
    /\ \E n1 \in DOMAIN connections, n2 \in DOMAIN connections :
         /\ ConnPtr(connections, n1, regCall.iName) # 0
         /\ ConnPtr(connections, n2, regCall.iName) # 0
         /\ heap[connections[n1][regCall.iName]].disconnector = regCall.s
         /\ heap[connections[n2][regCall.iName]].disconnector = NoStep
         /\ ~nestedDepends(regCall.s, heap[connections[n2][regCall.iName]].connector)

(***************************************************************************)
(* compute client: errors, tokens                                          *)
(***************************************************************************)

\* The substrings of err.Error() that shouldRetryWithWait looks for.
ResetByPeer == "connection reset by peer"

UnexpectedEOF == "unexpected EOF"

GoAway == "server sent GOAWAY"

EnhanceYourCalm == "ENHANCE_YOUR_CALM"

RateLimitExceeded == "rateLimitExceeded"

TransportPatterns == {ResetByPeer, UnexpectedEOF, GoAway, EnhanceYourCalm}

\* A nil error.
NilErr == [nil |-> TRUE, api |-> FALSE, code |-> 0, text |-> {}]

\* A *googleapi.Error with HTTP status code; text is the set of looked-for
\* substrings that its Error() contains.
ApiErr(code, text) == [nil |-> FALSE, api |-> TRUE, code |-> code, text |-> text]

\* An error of any other type.
PlainErr(text) == [nil |-> FALSE, api |-> FALSE, code |-> 0, text |-> text]

\* HTTP statuses the inner call answers with.
ApiCodes == {400, 403, 404, 428, 429, 430, 451, 499, 500, 503, 599, 600}

\* The errors the inner call can return.
Errors ==
    { ApiErr(c, {}) : c \in ApiCodes }
    \cup { ApiErr(403, {RateLimitExceeded}), ApiErr(400, {RateLimitExceeded}),
           ApiErr(400, {ResetByPeer}), ApiErr(404, {GoAway}) }
    \cup { PlainErr({}) }
    \cup { PlainErr({x}) : x \in TransportPatterns }
    \cup { PlainErr({GoAway, EnhanceYourCalm}), PlainErr({UnexpectedEOF, GoAway}) }

\* strings.Contains(err.Error(), pat)
Contains(err, pat) == pat \in err.text

\* What trans.Source.Token() can answer: a token with Valid() true, a token
\* with Valid() false, or an error; "none" when the transport is not an
\* *oauth2.Transport and no token is asked for.
TokenAnswers(tr) == IF tr = "oauth" THEN {"valid", "invalid", "tokenErr"} ELSE {"none"}

\* tkValid as shouldRetryWithWait computes it (compute.go:258-264): it
\* starts true and is replaced by tk.Valid() only when the transport is an
\* oauth2 transport and Token() returned no error.
TkValid(tr, tok) == IF tr = "oauth" /\ tok = "invalid" THEN FALSE ELSE TRUE

\* Retry's loop bound: for i := 1; i < 4; i++.
RetryLimit == 4

\* rand.Intn(1000) draws from 0..RandBound-1.
RandBound == 1000

\* 1*time.Second, in milliseconds.
BaseSleepMs == 1000

\* The values of rand.Intn(1000) tried.
RandSamples == {0, 499, RandBound - 1}

\* The sleep without the multiplier.
BackoffNoMultiplier(r, multiplier) == r + BaseSleepMs

\* (rand.Intn(1000) ms + 1 s) * multiplier, in milliseconds.
Backoff(r, multiplier) == (r + BaseSleepMs) * multiplier

\* shouldRetryWithWait with the valid-token case tested before the
\* transport patterns.
ShouldRetryTokenFirst(tr, tok, err, multiplier, r) ==
    LET tkValid == TkValid(tr, tok)
        ok == err.api
        retry(m) == [ret |-> "true", sleep |-> Backoff(r, m)]
        no == [ret |-> "false", sleep |-> 0]
    IN  IF err.nil THEN no
        ELSE IF ~ok /\ tkValid THEN no
        ELSE IF ~ok /\ (Contains(err, ResetByPeer) \/ Contains(err, UnexpectedEOF))
        THEN retry(multiplier)
        ELSE IF ~ok /\ (Contains(err, GoAway) \/ Contains(err, EnhanceYourCalm))
        THEN retry(multiplier * 2)
        ELSE IF ~ok THEN [ret |-> "panic", sleep |-> 0]
        ELSE IF err.code >= 500 /\ err.code <= 599 THEN retry(multiplier)
        ELSE IF err.code >= 429 THEN retry(multiplier)
        ELSE IF err.code = 403 /\ Contains(err, RateLimitExceeded) THEN retry(multiplier)
        ELSE IF ~tkValid THEN retry(multiplier)
        ELSE no

\* shouldRetryWithWait(tripper, err, multiplier): the returned value and the
\* time slept, given the token source's answer tok and the random draw r.
\* The switch cases are tried in order.  When err is no *googleapi.Error,
\* apiErr is nil; the fourth case reads apiErr.Code, which is a nil pointer
\* dereference: the call panics.
shouldRetryWithWait(tr, tok, err, multiplier, r) ==
    LET tkValid == TkValid(tr, tok)
        ok == err.api
        retry(m) == [ret |-> "true", sleep |-> Backoff(r, m)]
        no == [ret |-> "false", sleep |-> 0]
    IN  IF err.nil THEN no
        ELSE IF ~ok /\ (Contains(err, ResetByPeer) \/ Contains(err, UnexpectedEOF))
        THEN retry(multiplier)
        ELSE IF ~ok /\ (Contains(err, GoAway) \/ Contains(err, EnhanceYourCalm))
        THEN retry(multiplier * 2)
        ELSE IF ~ok /\ tkValid THEN no
        ELSE IF ~ok THEN [ret |-> "panic", sleep |-> 0]
        ELSE IF err.code >= 500 /\ err.code <= 599 THEN retry(multiplier)
        ELSE IF err.code >= 429 THEN retry(multiplier)
        ELSE IF err.code = 403 /\ Contains(err, RateLimitExceeded) THEN retry(multiplier)
        ELSE IF ~tkValid THEN retry(multiplier)
        ELSE no

\* A loop that runs one round more.
RetryLoopCondOneMore(i) == i < RetryLimit + 1

\* The loop condition of Retry: i < 4.
RetryLoopCond(i) == i < RetryLimit

(***************************************************************************)
(* Retry actions                                                           *)
(***************************************************************************)

RetryInit ==
    /\ Dependencies = [s \in Steps |-> {}]
    /\ RegistryEmpty
    /\ OpIdle
    /\ aq = NoPayload
    /\ PayloadIdle
    /\ QuotaIdle
    /\ StepIdle
    /\ SubnetIdle
    /\ SchedIdle
    /\ SiteIdle
    /\ tripper \in {"oauth", "plain"}
    /\ rpc = "call"
    /\ attempt = 1
    /\ ferr = [op |-> "nil", err |-> NilErr]
    /\ decision = [called |-> FALSE]
    /\ log = <<>>
    /\ result = [returned |-> FALSE]

\* op, err = f(opts...) returns no error: return op, nil.
InvokeSucceeds ==
    /\ rpc = "call"
    /\ ferr' = [op |-> "op", err |-> NilErr]
    /\ log' = Append(log, [ev |-> "call", ms |-> 0])
    /\ result' = [returned |-> TRUE, op |-> "op", err |-> NilErr]
    /\ rpc' = "done"
    /\ UNCHANGED <<tripper, attempt, decision, notRetryVars>>

\* op, err = f(opts...) returns an error (with or without an operation).
InvokeFails(op, err) ==
    /\ rpc = "call"
    /\ ferr' = [op |-> op, err |-> err]
    /\ log' = Append(log, [ev |-> "call", ms |-> 0])
    /\ rpc' = "check"
    /\ UNCHANGED <<tripper, attempt, decision, result, notRetryVars>>

\* The return after the loop, were it to give back no error.
RetryExhaustedDropsErr(f) == [returned |-> TRUE, op |-> f.op, err |-> NilErr]

\* The return after the loop: the named results op and err, as the last
\* invocation of f set them.
RetryExhausted(f) == [returned |-> TRUE, op |-> f.op, err |-> f.err]

\* if !shouldRetryWithWait(c.hc.Transport, err, i) { return nil, err }, then
\* i++ and the loop test; after the last round the named results are returned.
CheckRetry(tok, r) ==
    /\ rpc = "check"
    /\ LET d == shouldRetryWithWait(tripper, tok, ferr.err, attempt, r) IN
        /\ decision' = [called |-> TRUE, err |-> ferr.err, tok |-> tok,
                        multiplier |-> attempt, ret |-> d.ret, sleep |-> d.sleep]
        /\ IF d.ret = "panic"
           THEN /\ rpc' = "panic"
                /\ UNCHANGED <<attempt, log, result>>
           ELSE IF d.ret = "false"
           THEN /\ rpc' = "done"
                /\ result' = [returned |-> TRUE, op |-> "nil", err |-> ferr.err]
                /\ UNCHANGED <<attempt, log>>
           ELSE /\ log' = Append(log, [ev |-> "sleep", ms |-> d.sleep])
                /\ attempt' = attempt + 1
                /\ IF RetryLoopCond(attempt + 1)
                   THEN /\ rpc' = "call"
                        /\ UNCHANGED result
                   ELSE /\ rpc' = "done"
                        /\ result' = RetryExhausted(ferr)
    /\ UNCHANGED <<tripper, ferr, notRetryVars>>

RetryNext ==
    \/ InvokeSucceeds
    \/ \E op \in {"nil", "op"}, err \in Errors : InvokeFails(op, err)
    \/ \E tok \in TokenAnswers(tripper), r \in RandSamples : CheckRetry(tok, r)

RetrySpec == RetryInit /\ [][RetryNext]_vars

(***************************************************************************)
(* Properties of the retry wrapper                                         *)
(***************************************************************************)

\* The positions of the log that are invocations of f.
CallPositions == { k \in 1..Len(log) : log[k].ev = "call" }

\* The positions of the log that are sleeps.
SleepPositions == { k \in 1..Len(log) : log[k].ev = "sleep" }

\* C6: Retry, RetryBeta and RetryAlpha invoke the inner call at most 3
\* times, whatever it returns, and between any two consecutive invocations
\* there is a sleep of at least one second.
C6_RetryBound ==
    /\ Cardinality(CallPositions) <= 3
    /\ \A k \in CallPositions :
         k > 1 => (log[k - 1].ev = "sleep" /\ log[k - 1].ms >= BaseSleepMs)

\* Three invocations were made, with a sleep before the second and the third.
C6_Witness ==
    /\ Cardinality(CallPositions) = 3
    /\ Len(log) >= 5
    /\ log[2].ev = "sleep"
    /\ log[4].ev = "sleep"

\* The statuses the specification lists as retried for an API error.
ListedAsRetried(err) ==
    \/ (err.code >= 500 /\ err.code <= 599)
    \/ err.code = 429
    \/ (err.code = 403 /\ Contains(err, RateLimitExceeded))

\* C7 as claimed: with a valid oauth token an API error is retried exactly
\* when its status is 5xx or 429, or 403 with reason rateLimitExceeded.
C7_StatusClassification ==
    (decision.called /\ decision.err.api /\ decision.tok = "valid")
      => ((decision.ret = "true") <=> ListedAsRetried(decision.err))

\* C8 as claimed: every error observed while the token source delivers no
\* valid token (an invalid token, or a failure to get one) is retried.
C8_RetryWhenTokenNotValid ==
    (decision.called /\ decision.tok \in {"invalid", "tokenErr"})
      => decision.ret = "true"

\* C9: a non-API error whose text contains one of the four transport
\* patterns is retried whatever the token source answers; any other non-API
\* error seen with a valid token is not retried, Retry returns it and no
\* sleep follows the failed invocation.
C9_TransportClassification ==
    (decision.called /\ ~decision.err.api) =>
        /\ (decision.err.text \cap TransportPatterns # {}) => decision.ret = "true"
        /\ (decision.err.text \cap TransportPatterns = {} /\ decision.tok = "valid")
             => /\ decision.ret = "false"
                /\ decision.sleep = 0
                /\ rpc = "done"
                /\ log[Len(log)].ev = "call"
                /\ result.err = decision.err

\* A GOAWAY error seen with an invalid token was retried.
C9_Witness ==
    /\ decision.called
    /\ decision.err = PlainErr({GoAway})
    /\ decision.tok = "invalid"
    /\ decision.ret = "true"
    /\ log[Len(log)].ev = "sleep"

\* The errors that reach the GOAWAY / ENHANCE_YOUR_CALM case of the switch:
\* non-API errors with one of these two texts that did not already match the
\* reset-by-peer / unexpected-EOF case before it.
DoublesMultiplier(err) ==
    /\ ~err.api
    /\ ~Contains(err, ResetByPeer)
    /\ ~Contains(err, UnexpectedEOF)
    /\ Contains(err, GoAway) \/ Contains(err, EnhanceYourCalm)

MaxPolls == 4

\* Entries of op.Error.Errors in one answer.
MaxOpErrors == 2

\* time.Sleep(1 * time.Second), in milliseconds.
OpSleepMs == 1000

\* The values of op.Status tried: the three the switch names, the empty
\* string and one more.
OpStatuses == {"PENDING", "RUNNING", "DONE", "", "ABORTED"}

\* The entries of op.Error.Errors tried.
OperationErrors ==
    { [Code |-> "QUOTA_EXCEEDED", Message |-> "quota exceeded"],
      [Code |-> "RESOURCE_NOT_FOUND", Message |-> "not found"],
      [Code |-> "QUOTA_EXCEEDED", Message |-> "not found"] }

\* The lists op.Error.Errors can be.
OperationErrorLists ==
    UNION { [1..n -> OperationErrors] : n \in 0..MaxOpErrors }

\* What getOperation can answer: an error, or an operation with a status
\* and with or without an Error object.
OpAnswers ==
    { [err |-> TRUE, Status |-> "", hasError |-> FALSE, Errors |-> <<>>] }
    \cup { [err |-> FALSE, Status |-> s, hasError |-> FALSE, Errors |-> <<>>] :
             s \in OpStatuses }
    \cup { [err |-> FALSE, Status |-> "DONE", hasError |-> TRUE, Errors |-> l] :
             l \in OperationErrorLists }

\* OperationErrorCodeFormat and operationErrorMessageFormat: "Code: %s" and
\* "Message: %s" applied to a value give a line with that label.
OperationErrorCodeFormat(v) == [label |-> "Code", value |-> v]

operationErrorMessageFormat(v) == [label |-> "Message", value |-> v]

\* The lines of op.Error.Errors where each entry replaces the text so far.
OperErrsLastOnly(errors) ==
    IF errors = <<>> THEN <<>>
    ELSE <<OperationErrorCodeFormat(errors[Len(errors)].Code),
           operationErrorMessageFormat(errors[Len(errors)].Message)>>

\* operrs: for each entry of op.Error.Errors, in order, a new line with the
\* code and a new line with the message.
RECURSIVE OperErrs(_)
OperErrs(errors) ==
    IF errors = <<>> THEN <<>>
    ELSE OperErrs(SubSeq(errors, 1, Len(errors) - 1))
         \o <<OperationErrorCodeFormat(errors[Len(errors)].Code),
              operationErrorMessageFormat(errors[Len(errors)].Message)>>

\* A nil error of operationsWaitHelper.
OpNoErr == [kind |-> "nil", lines |-> <<>>]

\* The loop body where an unknown status falls through to return nil.
OpRoundUnknownIsDone(ans) ==
    IF ans.err
    THEN [continue |-> FALSE, sleep |-> 0,
          err |-> [kind |-> "getOperation", lines |-> <<>>]]
    ELSE IF ans.Status \in {"PENDING", "RUNNING"}
    THEN [continue |-> TRUE, sleep |-> OpSleepMs, err |-> OpNoErr]
    ELSE IF ans.Status = "DONE" /\ ans.hasError
    THEN [continue |-> FALSE, sleep |-> 0,
          err |-> [kind |-> "operation failed", lines |-> OperErrs(ans.Errors)]]
    ELSE [continue |-> FALSE, sleep |-> 0, err |-> OpNoErr]

\* The loop body that polls again at once, without sleeping.
OpRoundNoSleep(ans) ==
    IF ans.err
    THEN [continue |-> FALSE, sleep |-> 0,
          err |-> [kind |-> "getOperation", lines |-> <<>>]]
    ELSE IF ans.Status \in {"PENDING", "RUNNING"}
    THEN [continue |-> TRUE, sleep |-> 0, err |-> OpNoErr]
    ELSE IF ans.Status = "DONE"
    THEN [continue |-> FALSE, sleep |-> 0,
          err |-> IF ans.hasError
                  THEN [kind |-> "operation failed", lines |-> OperErrs(ans.Errors)]
                  ELSE OpNoErr]
    ELSE [continue |-> FALSE, sleep |-> 0,
          err |-> [kind |-> "unknown operation status",
                   lines |-> <<[label |-> "status", value |-> ans.Status]>>]]

\* The loop body that takes a DONE operation as failed only when its Error
\* object lists an error.
OpRoundEmptyErrorsIsSuccess(ans) ==
    IF ans.err
    THEN [continue |-> FALSE, sleep |-> 0,
          err |-> [kind |-> "getOperation", lines |-> <<>>]]
    ELSE IF ans.Status \in {"PENDING", "RUNNING"}
    THEN [continue |-> TRUE, sleep |-> OpSleepMs, err |-> OpNoErr]
    ELSE IF ans.Status = "DONE"
    THEN [continue |-> FALSE, sleep |-> 0,
          err |-> IF ans.hasError /\ ans.Errors # <<>>
                  THEN [kind |-> "operation failed", lines |-> OperErrs(ans.Errors)]
                  ELSE OpNoErr]
    ELSE [continue |-> FALSE, sleep |-> 0,
          err |-> [kind |-> "unknown operation status",
                   lines |-> <<[label |-> "status", value |-> ans.Status]>>]]

\* One round of the loop of operationsWaitHelper on the answer of
\* getOperation: whether the loop goes on, the time slept, the error returned.
OpRound(ans) ==
    IF ans.err
    THEN [continue |-> FALSE, sleep |-> 0,
          err |-> [kind |-> "getOperation", lines |-> <<>>]]
    ELSE IF ans.Status \in {"PENDING", "RUNNING"}
    THEN [continue |-> TRUE, sleep |-> OpSleepMs, err |-> OpNoErr]
    ELSE IF ans.Status = "DONE"
    THEN [continue |-> FALSE, sleep |-> 0,
          err |-> IF ans.hasError
                  THEN [kind |-> "operation failed", lines |-> OperErrs(ans.Errors)]
                  ELSE OpNoErr]
    ELSE [continue |-> FALSE, sleep |-> 0,
          err |-> [kind |-> "unknown operation status",
                   lines |-> <<[label |-> "status", value |-> ans.Status]>>]]

OpWaitInit ==
    /\ Dependencies = [s \in Steps |-> {}]
    /\ RegistryEmpty
    /\ RetryIdle
    /\ aq = NoPayload
    /\ PayloadIdle
    /\ QuotaIdle
    /\ StepIdle
    /\ SubnetIdle
    /\ SchedIdle
    /\ SiteIdle
    /\ opPc = "poll"
    /\ opSeen = <<>>
    /\ opSleeps = <<>>
    /\ opResult = [returned |-> FALSE]
    /\ opServer = [Status |-> "none"]

\* op, err := getOperation() and the switch on op.Status, with its sleep.
OpPoll(ans) ==
    /\ opPc = "poll"
    /\ Len(opSeen) < MaxPolls
    /\ opSeen' = Append(opSeen, ans)
    /\ LET r == OpRound(ans) IN
        IF r.continue
        THEN /\ opSleeps' = IF r.sleep > 0 THEN Append(opSleeps, r.sleep)
                            ELSE opSleeps
             /\ UNCHANGED <<opPc, opResult>>
        ELSE /\ opPc' = "done"
             /\ opResult' = [returned |-> TRUE, err |-> r.err]
             /\ UNCHANGED opSleeps
    /\ UNCHANGED <<opServer, notOpVars>>

OpWaitNext == \E ans \in OpAnswers : OpPoll(ans)

OpWaitSpec == OpWaitInit /\ [][OpWaitNext]_vars

(***************************************************************************)
(* Properties of the operation wait                                        *)
(***************************************************************************)

\* The answer is an operation that is still PENDING or RUNNING.
StillRunning(ans) == ~ans.err /\ ans.Status \in {"PENDING", "RUNNING"}

\* The last answer of getOperation.
LastAnswer == opSeen[Len(opSeen)]

\* C11: operationsWaitHelper polls again exactly while the status is PENDING
\* or RUNNING, sleeping 1 s before each further poll; it returns at the first
\* poll whose status is anything else, and when that status is not DONE the
\* returned error is "unknown operation status" with the status.
C11_StatusHandling ==
    /\ \A k \in 1..(Len(opSeen) - 1) : StillRunning(opSeen[k])
    /\ opSleeps = [k \in 1..Len(opSleeps) |-> OpSleepMs]
    /\ opPc \in {"poll", "done"}
    /\ opPc = "poll" =>
         /\ ~opResult.returned
         /\ Len(opSleeps) = Len(opSeen)
         /\ opSeen # <<>> => StillRunning(LastAnswer)
    /\ opPc = "done" =>
         /\ opResult.returned
         /\ ~StillRunning(LastAnswer)
         /\ Len(opSleeps) = Len(opSeen) - 1
         /\ (~LastAnswer.err /\ LastAnswer.Status # "DONE") =>
              opResult.err = [kind |-> "unknown operation status",
                              lines |-> <<[label |-> "status",
                                           value |-> LastAnswer.Status]>>]

\* After a RUNNING and a PENDING answer a status that is none of the three known ones
\* ended the wait with the unknown-status error.
C11_Witness ==
    /\ Len(opSeen) = 3
    /\ opSeen[1].Status = "RUNNING"
    /\ opSeen[2].Status = "PENDING"
    /\ ~LastAnswer.err
    /\ LastAnswer.Status = "ABORTED"
    /\ opResult.returned
    /\ opResult.err.kind = "unknown operation status"
    /\ opSleeps = <<OpSleepMs, OpSleepMs>>

\* C12: after k PENDING / RUNNING answers followed by DONE the helper has
\* returned, with exactly k + 1 polls and k sleeps, and it makes no poll
\* after an answer DONE.
C12_ReturnsAfterDone ==
    \A n \in 1..Len(opSeen) :
        (~opSeen[n].err /\ opSeen[n].Status = "DONE") =>
            /\ n = Len(opSeen)
            /\ opPc = "done"
            /\ opResult.returned
            /\ \A k \in 1..(n - 1) : StillRunning(opSeen[k])
            /\ Len(opSleeps) = n - 1

\* RUNNING, RUNNING, DONE: returned without error after 3 polls and 2 sleeps.
C12_Witness ==
    /\ Len(opSeen) = 3
    /\ opSeen[1].Status = "RUNNING"
    /\ opSeen[2].Status = "RUNNING"
    /\ ~LastAnswer.err
    /\ LastAnswer.Status = "DONE"
    /\ ~LastAnswer.hasError
    /\ opResult.returned
    /\ opResult.err = OpNoErr
    /\ Len(opSleeps) = 2

\* The lines of an error text.
ErrLines(e) == { e.lines[k] : k \in 1..Len(e.lines) }

\* C13: when the polled operation is DONE with a non-empty Error.Errors, the
\* helper returns an error, never nil, whose text has a "Code: <code>" line
\* and a "Message: <message>" line for every entry of Error.Errors.
C13_OperationErrorText ==
    (opSeen # <<>> /\ ~LastAnswer.err /\ LastAnswer.Status = "DONE"
       /\ LastAnswer.hasError /\ LastAnswer.Errors # <<>>) =>
        /\ opResult.returned
        /\ opResult.err # OpNoErr
        /\ \A k \in 1..Len(LastAnswer.Errors) :
             /\ [label |-> "Code", value |-> LastAnswer.Errors[k].Code]
                  \in ErrLines(opResult.err)
             /\ [label |-> "Message", value |-> LastAnswer.Errors[k].Message]
                  \in ErrLines(opResult.err)

\* A DONE operation with two different error entries was reported with both.
C13_Witness ==
    /\ opSeen # <<>>
    /\ ~LastAnswer.err
    /\ LastAnswer.Status = "DONE"
    /\ Len(LastAnswer.Errors) = 2
    /\ LastAnswer.Errors[1].Code # LastAnswer.Errors[2].Code
    /\ opResult.returned
    /\ Len(opResult.err.lines) = 4

(***************************************************************************)
(* WaitForAvailableQuotas: populate and validate                           *)
(***************************************************************************)

\* Entries of Quotas in a step payload tried by populate and validate.
MaxPayloadQuotas == 2

defaultQuotaInterval == "5s"

\* The Interval strings tried.
PayloadIntervals == {"", "5s", "0.1s", "0s", "0", "-1s", "abc", "5"}

\* time.ParseDuration on the strings tried: the duration in milliseconds, or
\* an error (with duration 0) for the empty string, a string that is no
\* number and a number without a unit; "0" alone is accepted.
ParseDuration(s) ==
    CASE s = "5s"   -> [ok |-> TRUE, d |-> 5000]
      [] s = "0.1s" -> [ok |-> TRUE, d |-> 100]
      [] s = "0s"   -> [ok |-> TRUE, d |-> 0]
      [] s = "0"    -> [ok |-> TRUE, d |-> 0]
      [] s = "-1s"  -> [ok |-> TRUE, d |-> 0 - 1000]
      [] OTHER      -> [ok |-> FALSE, d |-> 0]

\* The QuotaAvailable entries tried by populate and validate.
PayloadEntries ==
    [Metric : {"", "A"}, Region : {"", "r1"}, Units : {0 - 1, 0, 1}]

PayloadQuotaLists ==
    UNION { [1..n -> PayloadEntries] : n \in 0..MaxPayloadQuotas }

\* A nil DError of the step.
NoDErr == [kind |-> "nil", msg |-> "nil"]

\* typedErr(errType, safeMsg, err): an error of the kind passed.
typedErr(errType, safeMsg) == [kind |-> errType, msg |-> safeMsg]

\* An error built by Errf, which is passed no kind.
UntypedErrf(msg) == [kind |-> "", msg |-> msg]

invalidInputError == "InvalidInput"

apiError == "API"

\* WaitForAvailableQuotas.populate: the payload after it and its result.
populateQuotas(p) ==
    LET interval == IF p.Interval = "" THEN defaultQuotaInterval ELSE p.Interval
        parsed == ParseDuration(interval)
    IN  [aq  |-> [p EXCEPT !.Interval = interval, !.parsedInterval = parsed.d],
         err |-> IF ~parsed.ok
                 THEN typedErr(invalidInputError, "failed to parse duration")
                 ELSE NoDErr]

\* The checks of one entry, in the order of the code.
EntryErr(q) ==
    IF q.Metric = "" THEN typedErr(invalidInputError, "No metric given")
    ELSE IF q.Region = "" THEN typedErr(invalidInputError, "No region given")
    ELSE IF q.Units < 0 THEN typedErr(invalidInputError, "Units must be a positive int")
    ELSE NoDErr

\* The checks of one entry without the check of Region.
EntryErrNoRegionCheck(q) ==
    IF q.Metric = "" THEN typedErr(invalidInputError, "No metric given")
    ELSE IF q.Units < 0 THEN typedErr(invalidInputError, "Units must be a positive int")
    ELSE NoDErr

\* The loop over aq.Quotas from entry k on without the check of Region.
RECURSIVE QuotasErrNoRegionCheck(_, _)
QuotasErrNoRegionCheck(quotas, k) ==
    IF k > Len(quotas) THEN NoDErr
    ELSE IF EntryErrNoRegionCheck(quotas[k]) # NoDErr
    THEN EntryErrNoRegionCheck(quotas[k])
    ELSE QuotasErrNoRegionCheck(quotas, k + 1)

\* The loop over aq.Quotas from entry k on: the first error found.
RECURSIVE QuotasErr(_, _)
QuotasErr(quotas, k) ==
    IF k > Len(quotas) THEN NoDErr
    ELSE IF EntryErr(quotas[k]) # NoDErr THEN EntryErr(quotas[k])
    ELSE QuotasErr(quotas, k + 1)

\* validate that skips the check of Region.
ValidateQuotasNoRegionCheck(p) ==
    IF p.parsedInterval = 0 THEN UntypedErrf("No interval given")
    ELSE QuotasErrNoRegionCheck(p.Quotas, 1)

\* WaitForAvailableQuotas.validate: its result.
validateQuotas(p) ==
    IF p.parsedInterval = 0 THEN UntypedErrf("No interval given")
    ELSE QuotasErr(p.Quotas, 1)

QuotaPayloadInit ==
    /\ Dependencies = [s \in Steps |-> {}]
    /\ RegistryEmpty
    /\ RetryIdle
    /\ OpIdle
    /\ QuotaIdle
    /\ StepIdle
    /\ SubnetIdle
    /\ SchedIdle
    /\ SiteIdle
    /\ aq \in [Interval : PayloadIntervals, parsedInterval : {0},
               Quotas : PayloadQuotaLists]
    /\ aqPc = "new"
    /\ aqErr = NoDErr

\* The workflow's populate phase calls populate of the step.
PopulateQuotas ==
    /\ aqPc = "new"
    /\ aq' = populateQuotas(aq).aq
    /\ aqErr' = populateQuotas(aq).err
    /\ aqPc' = IF populateQuotas(aq).err = NoDErr THEN "populated"
               ELSE "populate failed"
    /\ UNCHANGED notPayloadVars

\* The workflow's validate phase, entered only after populate succeeded,
\* calls validate of the step.
ValidateQuotas ==
    /\ aqPc = "populated"
    /\ aqErr' = validateQuotas(aq)
    /\ aqPc' = IF validateQuotas(aq) = NoDErr THEN "validated" ELSE "rejected"
    /\ UNCHANGED <<aq, notPayloadVars>>

QuotaPayloadNext == PopulateQuotas \/ ValidateQuotas

QuotaPayloadSpec == QuotaPayloadInit /\ [][QuotaPayloadNext]_vars

(***************************************************************************)
(* Properties of populate and validate of WaitForAvailableQuotas           *)
(***************************************************************************)

\* Some entry of the list has an empty Metric, an empty Region or Units < 0.
HasBadEntry(quotas) ==
    \E k \in 1..Len(quotas) :
        quotas[k].Metric = "" \/ quotas[k].Region = "" \/ quotas[k].Units < 0

\* What populate is claimed to do in a step of the behaviour.
PopulateAsClaimed ==
    aqPc = "new" /\ aqPc' # "new" =>
        /\ aq.Interval = "" => aq'.Interval = "5s"
        /\ aq.Interval # "" => aq'.Interval = aq.Interval
        /\ aq'.Quotas = aq.Quotas
        /\ ParseDuration(aq'.Interval).ok =>
             /\ aqErr' = NoDErr
             /\ aq'.parsedInterval = ParseDuration(aq'.Interval).d
        /\ ~ParseDuration(aq'.Interval).ok =>
             /\ aqErr'.kind = "InvalidInput"
             /\ aqPc' = "populate failed"

\* C17 as stated: populate sets an empty Interval to 5s and fails with
\* InvalidInput when Interval does not parse; validate fails with
\* InvalidInput when some entry has an empty Metric, an empty Region or
\* Units < 0, and accepts the step otherwise.
C17_AcceptsOtherwise ==
    [][ /\ PopulateAsClaimed
        /\ aqPc = "populated" /\ aqPc' # "populated" =>
             IF HasBadEntry(aq.Quotas)
             THEN aqErr'.kind = "InvalidInput" /\ aqPc' = "rejected"
             ELSE aqErr' = NoDErr /\ aqPc' = "validated" ]_vars

\* C17, amended: populate as stated; validate first rejects a step whose
\* interval parsed to zero, with the error "No interval given" that carries
\* no InvalidInput kind, and only for a non-zero interval fails with
\* InvalidInput when some entry is bad and accepts the step otherwise.
C17_PayloadChecking ==
    [][ /\ PopulateAsClaimed
        /\ aqPc = "populated" /\ aqPc' # "populated" =>
             /\ aq' = aq
             /\ IF aq.parsedInterval = 0
                THEN /\ aqErr' = UntypedErrf("No interval given")
                     /\ aqPc' = "rejected"
                ELSE IF HasBadEntry(aq.Quotas)
                THEN aqErr'.kind = "InvalidInput" /\ aqPc' = "rejected"
                ELSE aqErr' = NoDErr /\ aqPc' = "validated" ]_vars

\* A step with Interval "0s" and two good entries passed populate and was
\* rejected by validate.
C17_Witness ==
    /\ aqPc = "rejected"
    /\ aq.Interval = "0s"
    /\ Len(aq.Quotas) = 2
    /\ ~HasBadEntry(aq.Quotas)
    /\ aqErr.msg = "No interval given"

(***************************************************************************)
(* WaitForAvailableQuotas: run                                             *)
(***************************************************************************)

\* Entries of Quotas of a step that runs.
MaxQuotas == 2

\* Quotas a region lists in one answer of GetRegion.
MaxRegionQuotas == 2

\* Ticks received in one behaviour.
MaxTicks == 2

\* The QuotaAvailable entries of a step that runs; 6 units are more than
\* any region data tried has available.
QuotaEntries == [Metric : {"A", "B"}, Region : {"r1"}, Units : {1, 6}]

QuotaLists == UNION { [1..n -> QuotaEntries] : n \in 0..MaxQuotas }

\* The payloads that passed populate and validate, among those tried.
RunnablePayloads ==
    { populateQuotas([Interval |-> i, parsedInterval |-> 0, Quotas |-> l]).aq :
        i \in {"0.1s", "-1s"}, l \in QuotaLists }

\* The quotas a region can list: a metric with nothing or with 5 units left.
RegionQuotaEntries == [Metric : {"A", "B"}, Limit : {10}, Usage : {5, 10}]

RegionQuotaLists ==
    UNION { [1..n -> RegionQuotaEntries] : n \in 0..MaxRegionQuotas }

\* What s.w.ComputeClient.GetRegion can answer: an error or a region.
RegionAnswers ==
    { [err |-> TRUE, Quotas |-> <<>>] }
    \cup { [err |-> FALSE, Quotas |-> l] : l \in RegionQuotaLists }

\* The condition of line 97 on a region quota q for the requested entry a.
QuotaMatches(q, a) == q.Metric = a.Metric /\ (q.Limit - q.Usage) >= a.Units

\* The messages the inner loop appends to successmsgs for the entry a: one
\* for every quota of the region that matches.
SuccessMsgs(quotas, a) ==
    Cardinality({ k \in 1..Len(quotas) : QuotaMatches(quotas[k], a) })

\* The region data has a quota of the entry's metric with enough left.
Available(quotas, a) ==
    \E k \in 1..Len(quotas) : QuotaMatches(quotas[k], a)

\* The test of line 102 that ends run with success.
AllQuotasFound(count, quotas) == count = Len(quotas)

\* The error run returns from the <-s.w.Cancel case, were it to report the
\* cancellation.
SelectCaseCancelFails(case, ctxErr) ==
    typedErr(IF case = "Cancel" THEN "Cancelled" ELSE ctxErr,
             "context expired before quota was available")

\* The error run returns from the cases <-s.w.Cancel and <-ctx.Done().
SelectCase(case, ctxErr) ==
    IF case = "Cancel" THEN NoDErr
    ELSE typedErr(ctxErr, "context expired before quota was available")

\* time.Tick(d) is a nil channel, which never delivers, when d <= 0.
TickDelivers(d) == d > 0

QuotaRunInit ==
    /\ Dependencies = [s \in Steps |-> {}]
    /\ RegistryEmpty
    /\ RetryIdle
    /\ OpIdle
    /\ StepIdle
    /\ SubnetIdle
    /\ SchedIdle
    /\ SiteIdle
    /\ aq \in RunnablePayloads
    /\ validateQuotas(aq) = NoDErr
    /\ aqPc = "validated"
    /\ aqErr = NoDErr
    /\ qPc = "select"
    /\ qCancel = FALSE
    /\ qCtx = "live"
    /\ qIdx = 0
    /\ qCount = 0
    /\ qSat = {}
    /\ qAvail = FALSE
    /\ qFetches = 0
    /\ qTicks = 0
    /\ qResult = [returned |-> FALSE]

\* run returns err from the branch via.
QuotaReturn(err, via) ==
    /\ qPc' = "done"
    /\ qResult' = [returned |-> TRUE, err |-> err, via |-> via]

\* The workflow closes its Cancel channel.
CancelFires ==
    /\ qPc # "done"
    /\ ~qCancel
    /\ qCancel' = TRUE
    /\ UNCHANGED <<qPc, qCtx, qIdx, qCount, qSat, qAvail, qFetches, qTicks,
                   qResult, notQuotaVars>>

\* The step's context is done: its deadline passed or it was cancelled.
CtxDone(ctxErr) ==
    /\ qPc # "done"
    /\ qCtx = "live"
    /\ qCtx' = ctxErr
    /\ UNCHANGED <<qPc, qCancel, qIdx, qCount, qSat, qAvail, qFetches, qTicks,
                   qResult, notQuotaVars>>

\* case <-s.w.Cancel
SelectCancel ==
    /\ qPc = "select"
    /\ qCancel
    /\ QuotaReturn(SelectCase("Cancel", qCtx), "Cancel")
    /\ UNCHANGED <<qCancel, qCtx, qIdx, qCount, qSat, qAvail, qFetches, qTicks,
                   notQuotaVars>>

\* case <-ctx.Done()
SelectCtxDone ==
    /\ qPc = "select"
    /\ qCtx # "live"
    /\ QuotaReturn(SelectCase("ctx.Done", qCtx), "ctx.Done")
    /\ UNCHANGED <<qCancel, qCtx, qIdx, qCount, qSat, qAvail, qFetches, qTicks,
                   notQuotaVars>>

\* case <-tick, up to the first call of GetRegion; with no entry the loop
\* over aq.Quotas is empty and the test of line 102 follows at once.
SelectTick ==
    /\ qPc = "select"
    /\ TickDelivers(aq.parsedInterval)
    /\ qTicks < MaxTicks
    /\ qTicks' = qTicks + 1
    /\ qCount' = 0
    /\ qSat' = {}
    /\ IF aq.Quotas = <<>>
       THEN /\ qAvail' = TRUE
            /\ qIdx' = 0
            /\ IF AllQuotasFound(0, aq.Quotas)
               THEN QuotaReturn(NoDErr, "tick")
               ELSE UNCHANGED <<qPc, qResult>>
       ELSE /\ qIdx' = 1
            /\ qPc' = "tick"
            /\ UNCHANGED <<qAvail, qResult>>
    /\ UNCHANGED <<qCancel, qCtx, qFetches, notQuotaVars>>

\* The round of the loop that, when GetRegion fails, gives the tick up and
\* waits for the next one.
GetRegionRetriesNextTick(ans) ==
    /\ qPc = "tick"
    /\ qFetches' = qFetches + 1
    /\ IF ans.err
       THEN /\ qPc' = "select"
            /\ qIdx' = 0
            /\ UNCHANGED <<qCount, qSat, qAvail, qResult>>
       ELSE LET a     == aq.Quotas[qIdx]
                count == qCount + SuccessMsgs(ans.Quotas, a)
                sat   == IF Available(ans.Quotas, a) THEN qSat \cup {qIdx}
                         ELSE qSat
            IN  /\ qCount' = count
                /\ qSat' = sat
                /\ IF qIdx < Len(aq.Quotas)
                   THEN /\ qIdx' = qIdx + 1
                        /\ UNCHANGED <<qPc, qResult, qAvail>>
                   ELSE /\ qIdx' = 0
                        /\ qAvail' = (qAvail \/ sat = 1..Len(aq.Quotas))
                        /\ IF AllQuotasFound(count, aq.Quotas)
                           THEN QuotaReturn(NoDErr, "tick")
                           ELSE /\ qPc' = "select"
                                /\ UNCHANGED qResult
    /\ UNCHANGED <<qCancel, qCtx, qTicks, notQuotaVars>>

\* One round of the loop over aq.Quotas: GetRegion answers for the entry at
\* qIdx, the inner loop counts, and after the last entry the test of line
\* 102 ends run or the select is entered again.
GetRegion(ans) ==
    /\ qPc = "tick"
    /\ qFetches' = qFetches + 1
    /\ IF ans.err
       THEN /\ QuotaReturn(typedErr(apiError, "failed to get region"), "GetRegion")
            /\ UNCHANGED <<qIdx, qCount, qSat, qAvail>>
       ELSE LET a     == aq.Quotas[qIdx]
                count == qCount + SuccessMsgs(ans.Quotas, a)
                sat   == IF Available(ans.Quotas, a) THEN qSat \cup {qIdx}
                         ELSE qSat
            IN  /\ qCount' = count
                /\ qSat' = sat
                /\ IF qIdx < Len(aq.Quotas)
                   THEN /\ qIdx' = qIdx + 1
                        /\ UNCHANGED <<qPc, qResult, qAvail>>
                   ELSE /\ qIdx' = 0
                        /\ qAvail' = (qAvail \/ sat = 1..Len(aq.Quotas))
                        /\ IF AllQuotasFound(count, aq.Quotas)
                           THEN QuotaReturn(NoDErr, "tick")
                           ELSE /\ qPc' = "select"
                                /\ UNCHANGED qResult
    /\ UNCHANGED <<qCancel, qCtx, qTicks, notQuotaVars>>

QuotaRunNext ==
    \/ CancelFires
    \/ \E e \in {"context deadline exceeded", "context canceled"} : CtxDone(e)
    \/ SelectCancel
    \/ SelectCtxDone
    \/ SelectTick
    \/ \E ans \in RegionAnswers : GetRegion(ans)

QuotaRunSpec == QuotaRunInit /\ [][QuotaRunNext]_vars

(***************************************************************************)
(* Properties of WaitForAvailableQuotas.run                                *)
(***************************************************************************)

\* run has returned success from a tick.
TickSuccess ==
    qResult.returned /\ qResult.via = "tick" /\ qResult.err = NoDErr

\* C14: run returns success from a tick only when, in the region data read
\* during that tick, every requested entry has a region quota of its metric
\* with Limit - Usage >= Units.
C14_SuccessOnlyWhenAvailable ==
    TickSuccess => qSat = 1..Len(aq.Quotas)

\* C15: when run takes the case of the workflow's Cancel signal it returns
\* nil, and it makes no GetRegion call in that step or afterwards; no error
\* is returned from that case.
C15_CancelReturnsNil ==
    [][ /\ (~qResult.returned /\ qResult'.returned /\ qResult'.via = "Cancel") =>
             /\ qCancel
             /\ qResult'.err = NoDErr
             /\ qFetches' = qFetches
             /\ qTicks' = qTicks
        /\ qResult.returned => (qFetches' = qFetches /\ qResult' = qResult) ]_vars

\* Cancel fired while a tick was checking its second entry; the tick went
\* on to the select, whose Cancel case returned nil after 2 GetRegion calls.
C15_Witness ==
    /\ qResult.returned
    /\ qResult.via = "Cancel"
    /\ qResult.err = NoDErr
    /\ qCancel
    /\ qTicks = 1
    /\ qFetches = 2
    /\ qCtx = "live"

\* C16: when the requested quota never became available, no GetRegion call
\* failed, Cancel has not fired and the step's context deadline has expired,
\* a run that returned has returned an error of the kind of the exceeded
\* deadline, never success.
C16_TimeoutWhenNeverAvailable ==
    (qResult.returned /\ ~qCancel /\ ~qAvail /\ qResult.via # "GetRegion"
       /\ qCtx = "context deadline exceeded") =>
        /\ qResult.err # NoDErr
        /\ qResult.err.kind = "context deadline exceeded"

(***************************************************************************)
(* The steps Suspend, Resume and SetMachineType                            *)
(***************************************************************************)

\* Times the workflow's populate runs on a step.
MaxPopulates == 2

StepTypes == {"Suspend", "Resume", "SetMachineType"}

\* The workflows tried: with and without a Project and a Zone.
Workflows == [Project : {"", "wp"}, Zone : {"", "wz"}]

\* A machine type as the sequence of the segments of the string, split at
\* "/": the empty string, a bare name, and the two URL forms.
MachineTypes ==
    { <<>>,
      <<"n1-standard-1">>,
      <<"projects", "mp", "zones", "mz", "machineTypes", "n1-standard-1">>,
      <<"zones", "mz", "machineTypes", "n1-standard-1">> }

\* The step payloads tried; Suspend and Resume have no MachineType, which is
\* kept empty for them.
StepPayloads ==
    { p \in [type : StepTypes, Project : {"", "p1"}, Zone : {"", "z1"},
             Instance : {"", "i1"}, MachineType : MachineTypes] :
        p.type # "SetMachineType" => p.MachineType = <<>> }

\* The link of a registered instance, as the segments of
\* "projects/P/zones/Z/instances/N".
InstanceLink(project, zone, name) ==
    <<"projects", project, "zones", zone, "instances", name>>

\* The instance registries tried: empty, or the daisy name i1 registered
\* with a link in another project and zone and under its real name.
InstanceRegistries ==
    { <<>>,
      [n \in {"i1"} |-> [link |-> InstanceLink("rp", "rz", "i1-abc12")]] }

\* s.w.instances.get(name): the resource and whether there is one.
RegistryGet(reg, name) ==
    IF name \in DOMAIN reg THEN [ok |-> TRUE, link |-> reg[name].link]
    ELSE [ok |-> FALSE, link |-> <<>>]

\* NamedSubexp(instanceURLRgx, link): the named groups of the link.
NamedSubexp(link) ==
    IF Len(link) = 6 /\ link[1] = "projects" /\ link[3] = "zones"
         /\ link[5] = "instances"
    THEN [project |-> link[2], zone |-> link[4], instance |-> link[6]]
    ELSE IF Len(link) = 4 /\ link[1] = "zones" /\ link[3] = "instances"
    THEN [project |-> "", zone |-> link[2], instance |-> link[4]]
    ELSE [project |-> "", zone |-> "", instance |-> ""]

\* machineTypeURLRegex.MatchString(mt): mt is a machine type URL, with or
\* without its project.
machineTypeURLRegexMatch(mt) ==
    \/ Len(mt) = 6 /\ mt[1] = "projects" /\ mt[3] = "zones"
         /\ mt[5] = "machineTypes"
    \/ Len(mt) = 4 /\ mt[1] = "zones" /\ mt[3] = "machineTypes"

\* addErrs(errs, err): errs with err added.
addErrs(errs, err) == Append(errs, err)

\* populate that takes Project and Zone from the workflow in every case.
PopulateOverwrites(p, w) ==
    [p EXCEPT !.Project = w.Project, !.Zone = w.Zone]

\* populate of the three steps: the payload after it.
populate(p, w) ==
    [p EXCEPT !.Project = IF p.Project = "" THEN w.Project ELSE p.Project,
              !.Zone = IF p.Zone = "" THEN w.Zone ELSE p.Zone]

\* validate that requires no Instance.
ValidateNoInstanceCheck(p) ==
    LET e1 == IF p.Project = "" THEN addErrs(<<>>, "must specify project") ELSE <<>>
        e2 == IF p.Zone = "" THEN addErrs(e1, "must specify zone") ELSE e1
    IN  IF p.type = "SetMachineType" /\ p.MachineType = <<>>
        THEN addErrs(e2, "must specify machine type") ELSE e2

\* validate of the three steps: the errors collected, in order.
validate(p) ==
    LET e1 == IF p.Project = "" THEN addErrs(<<>>, "must specify project") ELSE <<>>
        e2 == IF p.Zone = "" THEN addErrs(e1, "must specify zone") ELSE e1
        e3 == IF p.Instance = "" THEN addErrs(e2, "must specify instance") ELSE e2
    IN  IF p.type = "SetMachineType" /\ p.MachineType = <<>>
        THEN addErrs(e3, "must specify machine type") ELSE e3

\* The target of run taken from the step alone.
RunTargetIgnoresRegistry(p, reg) ==
    [project |-> p.Project, zone |-> p.Zone, instance |-> p.Instance]

\* The project, zone and instance run passes to the compute client.
RunTarget(p, reg) ==
    IF RegistryGet(reg, p.Instance).ok
    THEN NamedSubexp(RegistryGet(reg, p.Instance).link)
    ELSE [project |-> p.Project, zone |-> p.Zone, instance |-> p.Instance]

\* The machine type of run where the prefix is put before every value.
RunMachineTypeAlwaysExpands(p, w) ==
    <<"projects", w.Project, "zones", w.Zone, "machineTypes">>
    \o (IF p.MachineType = <<>> THEN <<"">> ELSE p.MachineType)

\* The machine type SetMachineType.run passes to the compute client.
RunMachineType(p, w) ==
    IF ~machineTypeURLRegexMatch(p.MachineType)
    THEN <<"projects", w.Project, "zones", w.Zone, "machineTypes">>
         \o (IF p.MachineType = <<>> THEN <<"">> ELSE p.MachineType)
    ELSE p.MachineType

\* The call run makes on s.w.ComputeClient.
ClientCall(p, w, reg) ==
    [op          |-> p.type,
     project     |-> RunTarget(p, reg).project,
     zone        |-> RunTarget(p, reg).zone,
     instance    |-> RunTarget(p, reg).instance,
     machineType |-> IF p.type = "SetMachineType" THEN RunMachineType(p, w)
                     ELSE <<>>]

StepInit ==
    /\ Dependencies = [s \in Steps |-> {}]
    /\ RegistryEmpty
    /\ RetryIdle
    /\ OpIdle
    /\ aq = NoPayload
    /\ PayloadIdle
    /\ QuotaIdle
    /\ wf \in Workflows
    /\ st \in StepPayloads
    /\ instances \in InstanceRegistries
    /\ stPopulated = 0
    /\ stCall = [op |-> "none"]
    /\ apiLog = <<>>
    /\ SubnetIdle
    /\ SchedIdle
    /\ SiteIdle

\* The workflow's populate phase calls populate of the step.
StepPopulate ==
    /\ stCall.op \in {"none", "populate"}
    /\ stPopulated < MaxPopulates
    /\ st' = populate(st, wf)
    /\ stPopulated' = stPopulated + 1
    /\ stCall' = [op |-> "populate", errs |-> <<>>]
    /\ UNCHANGED <<wf, instances, apiLog, notStepVars>>

\* validate of the step is called, with or without populate before it.
StepValidate ==
    /\ stCall.op \in {"none", "populate"}
    /\ stCall' = [op |-> "validate", errs |-> validate(st)]
    /\ UNCHANGED <<wf, st, instances, stPopulated, apiLog, notStepVars>>

\* run of a step that passed validate; the client call succeeds or fails.
StepRun(ok) ==
    /\ stCall.op = "validate"
    /\ stCall.errs = <<>>
    /\ apiLog' = Append(apiLog, ClientCall(st, wf, instances))
    /\ stCall' = [op |-> "run",
                  errs |-> IF ok THEN <<>> ELSE addErrs(<<>>, "client error")]
    /\ UNCHANGED <<wf, st, instances, stPopulated, notStepVars>>

StepNext ==
    \/ StepPopulate
    \/ StepValidate
    \/ \E ok \in BOOLEAN : StepRun(ok)

StepSpec == StepInit /\ [][StepNext]_vars

(***************************************************************************)
(* Properties of Suspend, Resume and SetMachineType                        *)
(***************************************************************************)

OwnFieldEmpty(p) ==
    \/ p.Project = ""
    \/ p.Zone = ""
    \/ p.Instance = ""
    \/ p.type = "SetMachineType" /\ p.MachineType = <<>>

\* C19: validate fails exactly when one of the step's own fields Project,
\* Zone, Instance (and MachineType for SetMachineType) is empty; it changes
\* neither the step nor the workflow, so it applies no workflow default; and
\* after populate on a workflow with Project and Zone a step with a
\* non-empty Instance (and MachineType for SetMachineType) validates.
C19_ValidateRequiredFields ==
    [][ (stCall.op # "validate" /\ stCall'.op = "validate") =>
          /\ (stCall'.errs # <<>>) <=> OwnFieldEmpty(st)
          /\ st' = st
          /\ wf' = wf
          /\ (stPopulated = 0 /\ (st.Project = "" \/ st.Zone = "")) =>
               stCall'.errs # <<>>
          /\ (/\ stPopulated >= 1
              /\ wf.Project # ""
              /\ wf.Zone # ""
              /\ st.Instance # ""
              /\ st.type = "SetMachineType" => st.MachineType # <<>>) =>
               stCall'.errs = <<>> ]_vars

\* A Resume step written without Project and Zone validated after populate
\* on a workflow that has both.
C19_Witness ==
    /\ stCall.op = "validate"
    /\ stCall.errs = <<>>
    /\ st.type = "Resume"
    /\ stPopulated = 1
    /\ st.Project = "wp"
    /\ st.Zone = "wz"

\* C20: run makes exactly one call on the compute client, of the step's
\* kind; when the step's Instance names a registered instance the call's
\* project, zone and instance are those of the registered link, otherwise
\* they are the step's Project, Zone and Instance.
C20_RunResolvesInstance ==
    [][ (stCall.op # "run" /\ stCall'.op = "run") =>
          /\ Len(apiLog') = Len(apiLog) + 1
          /\ SubSeq(apiLog', 1, Len(apiLog)) = apiLog
          /\ LET call == apiLog'[Len(apiLog')] IN
               /\ call.op = st.type
               /\ IF st.Instance \in DOMAIN instances
                  THEN instances[st.Instance].link =
                         <<"projects", call.project, "zones", call.zone,
                           "instances", call.instance>>
                  ELSE /\ call.project = st.Project
                       /\ call.zone = st.Zone
                       /\ call.instance = st.Instance
          /\ st' = st ]_vars

\* A Suspend step with its own Project and Zone ran on a registered
\* instance: the one call went to the project and zone of the link.
C20_Witness ==
    /\ stCall.op = "run"
    /\ st.type = "Suspend"
    /\ st.Project = "p1"
    /\ st.Zone = "z1"
    /\ st.Instance \in DOMAIN instances
    /\ Len(apiLog) = 1
    /\ apiLog[1].project = "rp"
    /\ apiLog[1].zone = "rz"
    /\ apiLog[1].instance = "i1-abc12"

\* The value has the form of a machine type URL:
\* [projects/P/]zones/Z/machineTypes/NAME.
IsMachineTypeURL(mt) ==
    \/ \E P, Z, N \in {mt[k] : k \in 1..Len(mt)} :
         mt = <<"projects", P, "zones", Z, "machineTypes", N>>
    \/ \E Z, N \in {mt[k] : k \in 1..Len(mt)} :
         mt = <<"zones", Z, "machineTypes", N>>

\* C21: SetMachineType.run passes a MachineType of the machine type URL
\* form to the client unchanged, and passes a bare name NAME as
\* projects/P/zones/Z/machineTypes/NAME, P and Z being the workflow's
\* Project and Zone.
C21_MachineTypeExpansion ==
    [][ (stCall.op # "run" /\ stCall'.op = "run" /\ st.type = "SetMachineType") =>
          LET call == apiLog'[Len(apiLog')] IN
            /\ call.op = "SetMachineType"
            /\ IsMachineTypeURL(st.MachineType) =>
                 call.machineType = st.MachineType
            /\ Len(st.MachineType) = 1 =>
                 call.machineType =
                   <<"projects", wf.Project, "zones", wf.Zone,
                     "machineTypes", st.MachineType[1]>> ]_vars

\* SetMachineType ran with the bare name n1-standard-1 on a workflow with
\* Project wp and Zone wz: the client got the expanded URL.
C21_Witness ==
    /\ stCall.op = "run"
    /\ st.type = "SetMachineType"
    /\ st.MachineType = <<"n1-standard-1">>
    /\ wf = [Project |-> "wp", Zone |-> "wz"]
    /\ Len(apiLog) = 1
    /\ apiLog[1].machineType =
         <<"projects", "wp", "zones", "wz", "machineTypes", "n1-standard-1">>

(***************************************************************************)
(* Subnetwork.validate                                                     *)
(***************************************************************************)

\* A StackType string as the sequence of its characters.
StrIPV4 == <<"I", "P", "V", "4">>

StrIPV6 == <<"I", "P", "V", "6">>

StrIPV4_ONLY == StrIPV4 \o <<"_", "O", "N", "L", "Y">>

StrIPV6_ONLY == StrIPV6 \o <<"_", "O", "N", "L", "Y">>

StrIPV4_IPV6 == StrIPV4 \o <<"_">> \o StrIPV6

\* validStackType
validStackType == {StrIPV4_ONLY, StrIPV4_IPV6, StrIPV6_ONLY}

\* validIpv6AccessType
validIpv6AccessType == {"INTERNAL", "EXTERNAL"}

\* The StackType values tried: none, the three valid ones, and three that
\* are not valid, of which two contain IPV4 or IPV6.
StackTypes ==
    validStackType \cup {<<>>, StrIPV4, StrIPV6, <<"D", "U", "A", "L">>}

\* strings.Contains(s, substr)
StrContains(s, substr) ==
    \E i \in 0..(Len(s) - Len(substr)) :
        SubSeq(s, i + 1, i + Len(substr)) = substr

\* net.ParseCIDR succeeds on the strings tried that are an address, a slash
\* and a prefix length; it fails on the empty string and on the others.
ParseCIDROk(s) ==
    s \in {"10.0.0.0/24", "fd00::/64", "fd00:0:1::/48", "2600:1900::/48"}

\* The subnetworks tried.
Subnetworks ==
    [daisyName : {"sn"},
     Name : {"", "sn-abc12"},
     Network : {"", "default"},
     Region : {"", "europe-west1"},
     StackType : StackTypes,
     IpCidrRange : {"", "10.0.0.0/24", "10.0.0.0"},
     Ipv6CidrRange : {"", "fd00::/64", "fd00::"},
     Ipv6AccessType : {"", "INTERNAL", "EXTERNAL", "PUBLIC"},
     InternalIpv6Prefix : {"", "fd00:0:1::/48", "fd00:0:1::"},
     ExternalIpv6Prefix : {"", "2600:1900::/48", "2600:1900::"}]

\* What sn.Resource.validate can return: nil or an error.
ResourceValidateAnswers == {<<>>, <<"resource is not valid">>}

\* The zone of the workflow that creates the subnetwork.
SubnetWorkflowZone == "us-central1-a"

\* getRegionFromZone(zone): the zone without its last part.
getRegionFromZone(zone) ==
    IF zone = "us-central1-a" THEN "us-central1" ELSE ""

\* strOr(s, alt): s, or alt when s is empty.
strOr(s, alt) == IF s = "" THEN alt ELSE s

\* The checks of Name and Network.
NameErrs(n, errs) ==
    LET e1 == IF n.Name = "" THEN addErrs(errs, "name is mandatory") ELSE errs
    IN  IF n.Network = "" THEN addErrs(e1, "network is mandatory") ELSE e1

\* The check of the stack type.
StackTypeErrs(n, errs) ==
    IF n.StackType # <<>> /\ n.StackType \notin validStackType
    THEN addErrs(errs, "invalid stack type")
    ELSE errs

\* The check of IpCidrRange made only for a stack type that names IPV4.
Ipv4ErrsOnlyWhenNamed(n, errs) ==
    IF StrContains(n.StackType, StrIPV4) /\ ~ParseCIDROk(n.IpCidrRange)
    THEN addErrs(errs, "bad IpCidrRange")
    ELSE errs

\* The check of IpCidrRange: made when the stack type is unspecified or
\* contains IPV4.
Ipv4Errs(n, errs) ==
    IF (n.StackType = <<>> \/ StrContains(n.StackType, StrIPV4))
         /\ ~ParseCIDROk(n.IpCidrRange)
    THEN addErrs(errs, "bad IpCidrRange")
    ELSE errs

\* The checks of the access type and of the two prefixes that depend on it.
Ipv6AccessErrs(n, errs) ==
    IF n.Ipv6AccessType = ""
    THEN addErrs(errs, "ipv6 access type is mandatory")
    ELSE LET e1 == IF n.Ipv6AccessType \notin validIpv6AccessType
                   THEN addErrs(errs, "invalid IPv6 access type") ELSE errs
             e2 == IF n.InternalIpv6Prefix # ""
                        /\ ~ParseCIDROk(n.InternalIpv6Prefix)
                   THEN addErrs(e1, "bad InternalIpv6Prefix") ELSE e1
         IN  IF n.Ipv6AccessType = "EXTERNAL" /\ n.ExternalIpv6Prefix # ""
                  /\ ~ParseCIDROk(n.ExternalIpv6Prefix)
             THEN addErrs(e2, "bad ExternalIpv6Prefix") ELSE e2

\* The IPv6 checks without the one that forbids an IPv4 range.
Ipv6ErrsIpv4Allowed(n, errs) ==
    IF StrContains(n.StackType, StrIPV6)
    THEN LET e2 == IF n.Ipv6CidrRange # "" /\ ~ParseCIDROk(n.Ipv6CidrRange)
                   THEN addErrs(errs, "bad Ipv6CidrRange") ELSE errs
         IN  Ipv6AccessErrs(n, e2)
    ELSE errs

\* The IPv6 checks with the access type checked only when it is given.
Ipv6ErrsAccessTypeOptional(n, errs) ==
    IF StrContains(n.StackType, StrIPV6)
    THEN LET e1 == IF n.StackType = StrIPV6_ONLY /\ n.IpCidrRange # ""
                   THEN addErrs(errs, "IPv6-only subnetworks must not have an IPv4 CIDR range")
                   ELSE errs
             e2 == IF n.Ipv6CidrRange # "" /\ ~ParseCIDROk(n.Ipv6CidrRange)
                   THEN addErrs(e1, "bad Ipv6CidrRange") ELSE e1
         IN  IF n.Ipv6AccessType = "" THEN e2 ELSE Ipv6AccessErrs(n, e2)
    ELSE errs

\* The checks made when the stack type contains IPV6.
Ipv6Errs(n, errs) ==
    IF StrContains(n.StackType, StrIPV6)
    THEN LET e1 == IF n.StackType = StrIPV6_ONLY /\ n.IpCidrRange # ""
                   THEN addErrs(errs, "IPv6-only subnetworks must not have an IPv4 CIDR range")
                   ELSE errs
             e2 == IF n.Ipv6CidrRange # "" /\ ~ParseCIDROk(n.Ipv6CidrRange)
                   THEN addErrs(e1, "bad Ipv6CidrRange") ELSE e1
         IN  Ipv6AccessErrs(n, e2)
    ELSE errs

\* s.w.subnetworks.regCreate(daisyName, ...) without overWrite: an error when
\* a creation is registered under the name, else the creation is registered.
regCreate(reg, daisyName) ==
    IF daisyName \in reg
    THEN [reg |-> reg, errs |-> <<"subnetwork already created">>]
    ELSE [reg |-> reg \cup {daisyName}, errs |-> <<>>]

\* The errors of Subnetwork.validate, given those of sn.Resource.validate and
\* of regCreate, in the order they are added.
subnetworkValidate(n, resErrs, regErrs) ==
    Ipv6Errs(n, Ipv4Errs(n, StackTypeErrs(n, NameErrs(n, resErrs)))) \o regErrs

SubnetInit ==
    /\ Dependencies = [s \in Steps |-> {}]
    /\ RegistryEmpty
    /\ RetryIdle
    /\ OpIdle
    /\ aq = NoPayload
    /\ PayloadIdle
    /\ QuotaIdle
    /\ StepIdle
    /\ sn \in Subnetworks
    /\ snPc = "new"
    /\ snErrs = <<>>
    /\ snReg \in {{}, {"sn"}}
    /\ SchedIdle
    /\ SiteIdle

\* The workflow's validate phase calls validate of the subnetwork.
SubnetValidate(resErrs) ==
    /\ snPc = "new"
    /\ snPc' = "validated"
    /\ sn' = [sn EXCEPT !.Region =
                strOr(sn.Region, getRegionFromZone(SubnetWorkflowZone))]
    /\ snReg' = regCreate(snReg, sn.daisyName).reg
    /\ snErrs' = subnetworkValidate(sn, resErrs, regCreate(snReg, sn.daisyName).errs)
    /\ UNCHANGED notSubnetVars

SubnetNext == \E resErrs \in ResourceValidateAnswers : SubnetValidate(resErrs)

SubnetSpec == SubnetInit /\ [][SubnetNext]_vars

(***************************************************************************)
(* Properties of Subnetwork.validate                                       *)
(***************************************************************************)

\* The messages of the errors validate returned.
SnMsgs == { snErrs[k] : k \in 1..Len(snErrs) }

Ipv4Active(n) == n.StackType \in {<<>>, StrIPV4_ONLY, StrIPV4_IPV6}

\* The IPv6 part of the stack is active: IPV4_IPV6, IPV6_ONLY.
Ipv6Active(n) == n.StackType \in {StrIPV4_IPV6, StrIPV6_ONLY}

\* The messages of the checks of the IPv6 fields.
Ipv6Msgs ==
    {"IPv6-only subnetworks must not have an IPv4 CIDR range",
     "bad Ipv6CidrRange", "ipv6 access type is mandatory",
     "invalid IPv6 access type", "bad InternalIpv6Prefix",
     "bad ExternalIpv6Prefix"}

\* C23: validate accepts only a StackType that is unspecified or one of
\* IPV4_ONLY, IPV4_IPV6, IPV6_ONLY; an unspecified StackType gets what
\* IPV4_ONLY gets; with the IPv4 part active validate fails unless
\* IpCidrRange parses as a CIDR; and for IPV6_ONLY a missing or unparsable
\* IpCidrRange is no error.
C23_StackTypeAndIpv4Range ==
    snPc = "validated" =>
        /\ snErrs = <<>> => sn.StackType \in {<<>>, StrIPV4_ONLY, StrIPV4_IPV6, StrIPV6_ONLY}
        /\ (sn.StackType # <<>> /\ sn.StackType \notin validStackType) =>
             "invalid stack type" \in SnMsgs
        /\ sn.StackType = <<>> =>
             /\ SnMsgs \cap Ipv6Msgs = {}
             /\ \E resErrs \in ResourceValidateAnswers,
                   regErrs \in {<<>>, <<"subnetwork already created">>} :
                  snErrs = subnetworkValidate(
                             [sn EXCEPT !.StackType = StrIPV4_ONLY],
                             resErrs, regErrs)
        /\ (Ipv4Active(sn) /\ ~ParseCIDROk(sn.IpCidrRange)) =>
             /\ snErrs # <<>>
             /\ "bad IpCidrRange" \in SnMsgs
        /\ (Ipv4Active(sn) /\ ParseCIDROk(sn.IpCidrRange)) =>
             "bad IpCidrRange" \notin SnMsgs
        /\ sn.StackType = StrIPV6_ONLY => "bad IpCidrRange" \notin SnMsgs

\* A subnetwork without StackType and without IpCidrRange, otherwise in
\* order, was rejected for its IpCidrRange alone.
C23_Witness ==
    /\ snPc = "validated"
    /\ sn.StackType = <<>>
    /\ sn.IpCidrRange = ""
    /\ sn.Ipv6AccessType = ""
    /\ snErrs = <<"bad IpCidrRange">>

\* An IPV6_ONLY subnetwork without IpCidrRange was accepted.
Ipv6OnlyAccepted ==
    /\ snPc = "validated"
    /\ sn.StackType = StrIPV6_ONLY
    /\ sn.IpCidrRange = ""
    /\ snErrs = <<>>

\* C24: with the IPv6 part active validate fails unless Ipv6AccessType is
\* set and is INTERNAL or EXTERNAL; with StackType IPV4_ONLY or unspecified
\* no error is raised about Ipv6AccessType, set or not.
C24_Ipv6AccessType ==
    snPc = "validated" =>
        /\ (Ipv6Active(sn) /\ sn.Ipv6AccessType = "") =>
             /\ snErrs # <<>>
             /\ "ipv6 access type is mandatory" \in SnMsgs
        /\ (Ipv6Active(sn) /\ sn.Ipv6AccessType \notin {"", "INTERNAL", "EXTERNAL"}) =>
             /\ snErrs # <<>>
             /\ "invalid IPv6 access type" \in SnMsgs
        /\ (Ipv6Active(sn) /\ sn.Ipv6AccessType \in {"INTERNAL", "EXTERNAL"}) =>
             SnMsgs \cap {"ipv6 access type is mandatory",
                          "invalid IPv6 access type"} = {}
        /\ sn.StackType \in {<<>>, StrIPV4_ONLY} =>
             SnMsgs \cap {"ipv6 access type is mandatory",
                          "invalid IPv6 access type"} = {}

\* An IPV4_IPV6 subnetwork with a good IPv4 range and no Ipv6AccessType was
\* rejected for the missing access type alone.
C24_Witness ==
    /\ snPc = "validated"
    /\ sn.StackType = StrIPV4_IPV6
    /\ sn.IpCidrRange = "10.0.0.0/24"
    /\ sn.Ipv6AccessType = ""
    /\ snErrs = <<"ipv6 access type is mandatory">>

\* An IPV4_ONLY subnetwork without Ipv6AccessType was accepted.
Ipv4OnlyAcceptedWithoutAccessType ==
    /\ snPc = "validated"
    /\ sn.StackType = StrIPV4_ONLY
    /\ sn.Ipv6AccessType = ""
    /\ snErrs = <<>>

\* Some IPv6 prefix of the subnetwork is present and does not parse.
BadIpv6Prefix(n) ==
    \/ n.Ipv6CidrRange # "" /\ ~ParseCIDROk(n.Ipv6CidrRange)
    \/ n.InternalIpv6Prefix # "" /\ ~ParseCIDROk(n.InternalIpv6Prefix)
    \/ n.ExternalIpv6Prefix # "" /\ ~ParseCIDROk(n.ExternalIpv6Prefix)

\* C25: with the IPv6 part active validate fails whenever an IPv6 prefix
\* that is present (Ipv6CidrRange, InternalIpv6Prefix, ExternalIpv6Prefix)
\* does not parse as a CIDR, for every value of Ipv6AccessType.
C25_Ipv6PrefixesMustParse ==
    (snPc = "validated" /\ Ipv6Active(sn) /\ BadIpv6Prefix(sn)) => snErrs # <<>>

\* What holds of the prefixes: the ExternalIpv6Prefix is looked at only for
\* the access type EXTERNAL.
Ipv6PrefixesCheckedAsCoded ==
    (/\ snPc = "validated"
     /\ Ipv6Active(sn)
     /\ \/ sn.Ipv6CidrRange # "" /\ ~ParseCIDROk(sn.Ipv6CidrRange)
        \/ sn.InternalIpv6Prefix # "" /\ ~ParseCIDROk(sn.InternalIpv6Prefix)
        \/ /\ sn.ExternalIpv6Prefix # "" /\ ~ParseCIDROk(sn.ExternalIpv6Prefix)
           /\ sn.Ipv6AccessType # "INTERNAL") => snErrs # <<>>

(***************************************************************************)
(* The stop rule of Retry                                                  *)
(***************************************************************************)

\* The last entry of the log is an invocation of f.
LastIsCall == log # <<>> /\ log[Len(log)].ev = "call"

\* C30: Retry returns success only from an attempt that succeeded, with
\* that attempt's operation and no attempt after it; it returns an error
\* either right after an attempt that shouldRetryWithWait declined to retry,
\* with no operation, that attempt's error and no sleep or attempt after it,
\* or after 3 attempts that all failed and were all to be retried, with the
\* error of the third; a further attempt is made only after a failed
\* attempt that is to be retried. (A fault inside shouldRetryWithWait is no
\* return of Retry.)
C30_RetryStopRule ==
    /\ result.returned <=> rpc = "done"
    /\ (result.returned /\ result.err = NilErr) =>
         /\ ferr.err = NilErr
         /\ result.op = ferr.op
         /\ result.op # "nil"
         /\ LastIsCall
    /\ (result.returned /\ result.err # NilErr) =>
         /\ result.err = ferr.err
         /\ decision.called
         /\ decision.err = ferr.err
         /\ \/ /\ decision.ret = "false"
               /\ result.op = "nil"
               /\ LastIsCall
            \/ /\ decision.ret = "true"
               /\ Cardinality(CallPositions) = 3
               /\ Cardinality(SleepPositions) = 3
    /\ (result.returned /\ ferr.err # NilErr) => result.err # NilErr
    /\ (rpc = "call" /\ log # <<>>) =>
         /\ ferr.err # NilErr
         /\ decision.called
         /\ decision.ret = "true"
         /\ decision.err = ferr.err
         /\ Cardinality(CallPositions) < 3
    /\ (rpc = "check") => (ferr.err # NilErr /\ LastIsCall /\ ~result.returned)

\* Three attempts failed and were to be retried; Retry returned the error of
\* the third together with the operation that attempt gave.
C30_Witness ==
    /\ result.returned
    /\ Cardinality(CallPositions) = 3
    /\ decision.ret = "true"
    /\ result.err = ferr.err
    /\ result.err # NilErr
    /\ result.op = "op"

(***************************************************************************)
(* A running Suspend / Resume / SetMachineType step and the workflow's     *)
(* cancellation                                                            *)
(***************************************************************************)

\* The operation a successful client call has started.
StartedOperation ==
    [err |-> FALSE, Status |-> "PENDING", hasError |-> FALSE, Errors |-> <<>>]

StepWaitInit ==
    /\ StepInit

\* run calls the compute client, whose request fails, so that the client
\* and run return the error at once, or succeeds and starts an operation,
\* on which the client goes on to wait (zoneOperationsWait).
RunCalls(ok) ==
    /\ stCall.op = "validate"
    /\ stCall.errs = <<>>
    /\ apiLog' = Append(apiLog, ClientCall(st, wf, instances))
    /\ IF ok
       THEN /\ stCall' = [op |-> "running", errs |-> <<>>]
            /\ opPc' = "poll"
            /\ opServer' = StartedOperation
       ELSE /\ stCall' = [op |-> "run", errs |-> addErrs(<<>>, "client error")]
            /\ UNCHANGED <<opPc, opServer>>
    /\ UNCHANGED <<wf, st, instances, stPopulated, opSeen, opSleeps, opResult,
                   regVars, retryVars, payloadVars, quotaVars, subnetVars,
                   schedVars, siteVars>>

\* The operation changes at the API, or asking for it starts to fail.
OperationMoves(ans) ==
    /\ opPc = "poll"
    /\ ans # opServer
    /\ opServer' = ans
    /\ UNCHANGED <<opPc, opSeen, opSleeps, opResult, notOpVars>>

\* One round of operationsWaitHelper inside the client call of run: while
\* the operation is PENDING or RUNNING the round sleeps and nothing changes;
\* otherwise the helper, the client call and run return.
WaitPoll ==
    /\ stCall.op = "running"
    /\ opPc = "poll"
    /\ LET r == OpRound(opServer) IN
        IF r.continue
        THEN UNCHANGED <<opPc, opResult, stCall>>
        ELSE /\ opPc' = "done"
             /\ opResult' = [returned |-> TRUE, err |-> r.err]
             /\ stCall' = [op |-> "run",
                           errs |-> IF r.err = OpNoErr THEN <<>>
                                    ELSE addErrs(<<>>, r.err.kind)]
    /\ UNCHANGED <<wf, st, instances, stPopulated, apiLog, opSeen, opSleeps,
                   opServer, regVars, retryVars, payloadVars, quotaVars,
                   subnetVars, schedVars, siteVars>>

StepWaitNext ==
    \/ StepPopulate
    \/ StepValidate
    \/ \E ok \in BOOLEAN : RunCalls(ok)
    \/ \E ans \in OpAnswers : OperationMoves(ans)
    \/ WaitPoll
    \/ CancelFires

\* The client keeps polling: a round of the wait loop that can return does.
StepWaitSpec ==
    StepWaitInit /\ [][StepWaitNext]_vars /\ WF_vars(WaitPoll)

\* C26: once the workflow's Cancel has fired, a running Suspend, Resume or
\* SetMachineType step eventually returns, also when it is blocked in the
\* operation wait on an operation that stays PENDING or RUNNING.
C26_CancelledStepReturns ==
    (qCancel /\ stCall.op = "running") ~> (stCall.op = "run")

(***************************************************************************)
(* The scheduler and the auto-cleanup (spec 4.2, 4.3)                      *)
(***************************************************************************)

\* Resources the workflow's Create* steps register during validate.
ResourceNames == {"r1", "r2"}

\* A registered resource: the step that creates it, its NoCleanup flag,
\* whether the creator's run has made it, the delete attempts so far and
\* whether the cleanup is through with it.
Registered(creator, noCleanup) ==
    [creatorStep |-> creator, NoCleanup |-> noCleanup, made |-> FALSE,
     deletes |-> 0, cleaned |-> FALSE]

StepStates == {"Ready", "Running", "Done", "Failed", "Skipped"}

\* The steps that transitively depend on s.
Descendants(s) == { d \in Steps \ {s} : nestedDepends(d, s) }

\* The steps s transitively depends on.
Ancestors(s) == { a \in Steps \ {s} : nestedDepends(s, a) }

SchedInit ==
    /\ Dependencies \in DependencyMaps
    /\ RegistryEmpty
    /\ RetryIdle
    /\ OpIdle
    /\ aq = NoPayload
    /\ PayloadIdle
    /\ QuotaIdle
    /\ StepIdle
    /\ SubnetIdle
    /\ SiteIdle
    /\ schPc = "run"
    /\ stepState = [s \in Steps |-> "Ready"]
    /\ wfErrs = <<>>
    /\ resources \in { [r \in ResourceNames |-> Registered(c[r], n[r])] :
                         c \in [ResourceNames -> Steps],
                         n \in [ResourceNames -> BOOLEAN] }

ReadinessPredecessorStarted(s) ==
    \A t \in Dependencies[s] : stepState[t] # "Ready"

\* Readiness: every predecessor completed successfully.
Readiness(s) ==
    \A t \in Dependencies[s] : stepState[t] = "Done"

\* The scheduler launches the task of a ready step; after the cancellation
\* signal it launches no more.
StepStarts(s) ==
    /\ schPc = "run"
    /\ stepState[s] = "Ready"
    /\ Readiness(s)
    /\ ~qCancel
    /\ stepState' = [stepState EXCEPT ![s] = "Running"]
    /\ UNCHANGED <<schPc, wfErrs, resources, Dependencies, qCancel, notSchedVars>>

\* The run of a Create* step makes one of its resources.
ResourceMade(r) ==
    /\ schPc = "run"
    /\ stepState[resources[r].creatorStep] = "Running"
    /\ ~resources[r].made
    /\ resources' = [resources EXCEPT ![r].made = TRUE]
    /\ UNCHANGED <<schPc, stepState, wfErrs, Dependencies, qCancel, notSchedVars>>

SkippedByDirect(s) ==
    { d \in Steps : s \in Dependencies[d] /\ stepState[d] = "Ready" }

\* A predecessor failure marks all unstarted descendants as skipped.
SkippedBy(s) ==
    { d \in Descendants(s) : stepState[d] = "Ready" }

\* The run of s returns: successfully, with a fatal error, or, having
\* observed the cancellation signal, with a Cancelled error.  An error is
\* recorded and skips the unstarted descendants; a fatal one is broadcast as
\* cancellation.  The other running steps are left running.
RunReturns(s, out) ==
    /\ schPc = "run"
    /\ stepState[s] = "Running"
    /\ out = "Cancelled" => qCancel
    /\ IF out = "ok"
       THEN /\ stepState' = [stepState EXCEPT ![s] = "Done"]
            /\ UNCHANGED <<wfErrs, qCancel>>
       ELSE /\ stepState' = [d \in Steps |->
                               IF d = s THEN "Failed"
                               ELSE IF d \in SkippedBy(s) THEN "Skipped"
                               ELSE stepState[d]]
            /\ wfErrs' = Append(wfErrs, [step |-> s, kind |-> out])
            /\ qCancel' = (qCancel \/ out # "Cancelled")
    /\ UNCHANGED <<schPc, resources, Dependencies, notSchedVars>>

\* No task is running and none can be launched: the steps left unstarted
\* are skipped and the workflow goes on to its cleanup.
WorkflowEnds ==
    /\ schPc = "run"
    /\ \A s \in Steps : stepState[s] # "Running"
    /\ \A s \in Steps : stepState[s] = "Ready" => (qCancel \/ ~Readiness(s))
    /\ stepState' = [s \in Steps |->
                       IF stepState[s] = "Ready" THEN "Skipped" ELSE stepState[s]]
    /\ schPc' = "cleanup"
    /\ UNCHANGED <<wfErrs, resources, Dependencies, qCancel, notSchedVars>>

CleanupPendingOnSuccessOnly ==
    { r \in ResourceNames : /\ ~resources[r].NoCleanup
                            /\ ~resources[r].cleaned
                            /\ wfErrs = <<>> /\ ~qCancel }

\* Auto-cleanup: every created resource with noCleanup = false, whether the
\* workflow succeeded, failed or was cancelled.
CleanupPending ==
    { r \in ResourceNames : ~resources[r].NoCleanup /\ ~resources[r].cleaned }

\* The cleanup issues the Delete of one resource (deleteFn); a failed Delete
\* is aggregated after the errors of the run.
CleanupDelete(r, ok) ==
    /\ schPc = "cleanup"
    /\ r \in CleanupPending
    /\ resources' = [resources EXCEPT ![r].deletes = @ + 1, ![r].cleaned = TRUE]
    /\ wfErrs' = IF ok THEN wfErrs
                 ELSE Append(wfErrs, [step |-> NoStep, kind |-> "CleanupFailed"])
    /\ UNCHANGED <<schPc, stepState, Dependencies, qCancel, notSchedVars>>

\* The cleanup is through; the workflow returns.
CleanupEnds ==
    /\ schPc = "cleanup"
    /\ CleanupPending = {}
    /\ schPc' = "done"
    /\ UNCHANGED <<stepState, wfErrs, resources, Dependencies, qCancel, notSchedVars>>

\* The workflow's Cancel is closed from outside while the workflow runs.
WorkflowCancelled ==
    /\ schPc = "run"
    /\ CancelFires

\* Failure aggregation: the first observed error first, the others after
\* it; Cancelled errors are suppressed when another error exists.
WorkflowError ==
    LET fatal == SelectSeq(wfErrs, LAMBDA e : e.kind # "Cancelled")
    IN  IF fatal # <<>> THEN fatal ELSE wfErrs

RunOutcomes == {"ok", "API", "Cancelled"}

SchedNext ==
    \/ \E s \in Steps : StepStarts(s)
    \/ \E r \in ResourceNames : ResourceMade(r)
    \/ \E s \in Steps : \E out \in RunOutcomes : RunReturns(s, out)
    \/ WorkflowEnds
    \/ \E r \in ResourceNames : \E ok \in BOOLEAN : CleanupDelete(r, ok)
    \/ CleanupEnds
    \/ WorkflowCancelled

SchedSpec == SchedInit /\ [][SchedNext]_vars

\* C27: a step's run begins only after the run of every one of its
\* transitive dependencies has returned successfully; steps that do not
\* depend on one another may run at the same time.
C27_RunAfterDependencies ==
    [][\A s \in Steps :
         (stepState[s] = "Ready" /\ stepState'[s] = "Running")
            => \A a \in Ancestors(s) : stepState[a] = "Done"]_vars

\* S2 and S3 both depend on S1 only, and run at the same time after S1.
C27_Witness ==
    /\ Dependencies = [s \in Steps |-> IF s = "S1" THEN {} ELSE {"S1"}]
    /\ stepState = [s \in Steps |-> IF s = "S1" THEN "Done" ELSE "Running"]

\* The errors recorded for the run of step s.
RunErrorsOf(s) ==
    { wfErrs[i] : i \in { k \in DOMAIN wfErrs : wfErrs[k].step = s } }

Returned(e) == \E j \in DOMAIN WorkflowError : WorkflowError[j] = e

\* C28: when a step fails, every transitive descendant (none of which has
\* started) is Skipped and stays so, its run never being invoked; the
\* workflow returns the failed step's error; and the steps running when it
\* fails are left running.
C28_FailurePropagation ==
    /\ [](\A s \in Steps : stepState[s] = "Failed" =>
            \A d \in Descendants(s) : stepState[d] = "Skipped")
    /\ [][\A d \in Steps : stepState[d] = "Skipped" => stepState'[d] = "Skipped"]_vars
    /\ [](schPc = "done" =>
            \A s \in Steps : stepState[s] = "Failed" =>
                \E e \in RunErrorsOf(s) :
                    \/ Returned(e)
                    \/ e.kind = "Cancelled" /\ WorkflowError # <<>>)
    /\ [][\A s, t \in Steps :
            (stepState[s] = "Running" /\ stepState'[s] = "Failed"
                /\ t # s /\ stepState[t] = "Running")
               => stepState'[t] = "Running"]_vars

\* S1 has failed with S3, which depends on it, skipped, while S2, running
\* when S1 failed, is still running.
C28_Witness ==
    /\ Dependencies["S3"] = {"S1"}
    /\ stepState = [s \in Steps |-> IF s = "S1" THEN "Failed"
                                    ELSE IF s = "S2" THEN "Running"
                                    ELSE "Skipped"]
    /\ wfErrs = <<[step |-> "S1", kind |-> "API"]>>

PairRecord(conns, hp, n, i) ==
    IF ConnPtr(conns, n, i) = 0 THEN [absent |-> TRUE]
    ELSE hp[ConnPtr(conns, n, i)]

\* C39: a regConnect or regDisconnect that returns an error leaves the
\* connection of every pair, with its connector and disconnector, as it was;
\* a regConnect that succeeds changes only the connection of its own pair,
\* which becomes a fresh record with the calling step as connector and no
\* disconnector.
C39_RejectedCallChangesNothing ==
    [][ (RegCalled("regConnect") \/ RegCalled("regDisconnect")) =>
          LET n == regCall'.nName
              i == regCall'.iName
          IN  /\ regCall'.err # NoErr =>
                   /\ connections' = connections
                   /\ heap' = heap
              /\ (regCall'.op = "regConnect" /\ regCall'.err = NoErr) =>
                   /\ \A n2 \in Subnets, i2 \in Insts :
                        (n2 # n \/ i2 # i) =>
                           PairRecord(connections', heap', n2, i2)
                             = PairRecord(connections, heap, n2, i2)
                   /\ PairRecord(connections', heap', n, i) = NewConnection(regCall'.s)
                   /\ ConnPtr(connections', n, i) \notin 1..Len(heap)
                   /\ \A p \in 1..Len(heap) : heap'[p] = heap[p] ]_vars

\* A regDisconnect was rejected while another instance is connected to the
\* same subnetwork.
C39_Witness ==
    /\ regCall.op = "regDisconnect"
    /\ regCall.err # NoErr
    /\ \E i2 \in Insts \ {regCall.iName} :
         ConnPtr(connections, regCall.nName, i2) # 0


\* C34: regDisconnectAll(i, s) returns an error whenever disconnectHelper
\* refuses at least one of the live connections of i, in whatever order the
\* connections are visited and whether or not others were disconnected.
C34_DisconnectAllReportsFailure ==
    [][ RegCalled("regDisconnectAll") =>
          LET i == regCall'.iName
              s == regCall'.s
              live == LiveSubnets(i, connections, heap)
          IN  (\E n \in live :
                 disconnectHelper(n, i, s, connections, heap).err # NoErr)
                => regCall'.err # NoErr ]_vars


(***************************************************************************)
(* Further properties of the retry wrapper                                 *)
(***************************************************************************)

\* C35: shouldRetryWithWait is total: for every error and every answer of
\* the token source it returns true or false and does not fault.
C35_ShouldRetryIsTotal ==
    decision.called => decision.ret \in {"true", "false"}


(***************************************************************************)
(* Further properties of the operation wait                                *)
(***************************************************************************)

\* C38: operationsWaitHelper returns no error exactly when the first status
\* outside PENDING / RUNNING is DONE and the operation has no Error object;
\* a DONE operation with an Error object whose Errors list is empty is a
\* failure; and an error of the operation getter is returned at once, with
\* no poll after it.
C38_SuccessOnlyWhenDoneWithoutError ==
    /\ \A n \in 1..Len(opSeen) :
         opSeen[n].err =>
            /\ n = Len(opSeen)
            /\ opPc = "done"
            /\ opResult.returned
            /\ opResult.err = [kind |-> "getOperation", lines |-> <<>>]
    /\ opResult.returned =>
         /\ (opResult.err = OpNoErr) <=>
               (/\ ~LastAnswer.err
                /\ LastAnswer.Status = "DONE"
                /\ ~LastAnswer.hasError)
         /\ (~LastAnswer.err /\ LastAnswer.Status = "DONE" /\ LastAnswer.hasError) =>
               opResult.err.kind = "operation failed"

\* After a RUNNING answer the operation was DONE with an Error object that
\* lists no error, and the helper returned a failure.
C38_Witness ==
    /\ Len(opSeen) = 2
    /\ opSeen[1].Status = "RUNNING"
    /\ LastAnswer.Status = "DONE"
    /\ LastAnswer.hasError
    /\ LastAnswer.Errors = <<>>
    /\ opResult.returned
    /\ opResult.err = [kind |-> "operation failed", lines |-> <<>>]


(***************************************************************************)
(* Further properties of WaitForAvailableQuotas                            *)
(***************************************************************************)

\* C33: run aborts on the first GetRegion call that fails: in that very step
\* it returns an error of kind API, and after a return no entry is queried
\* and no tick is taken any more.
C33_AbortsOnFailedGetRegion ==
    [][ /\ \A ans \in RegionAnswers :
             (ans.err /\ GetRegion(ans)) =>
                /\ qResult'.returned
                /\ qResult'.err = typedErr(apiError, "failed to get region")
                /\ qResult'.err.kind = "API"
                /\ qPc' = "done"
        /\ qResult.returned =>
             (qFetches' = qFetches /\ qTicks' = qTicks /\ qResult' = qResult) ]_vars

\* The first of two entries could not be looked up in the first tick: run
\* returned after one GetRegion call.
C33_Witness ==
    /\ qResult.returned
    /\ qResult.via = "GetRegion"
    /\ qResult.err.kind = "API"
    /\ Len(aq.Quotas) = 2
    /\ qIdx = 1
    /\ qFetches = 1
    /\ qTicks = 1


\* C36: a WaitForAvailableQuotas step that passed populate and validate has
\* a strictly positive polling interval, with which its run receives ticks.
C36_PositiveInterval ==
    aqPc = "validated" =>
        /\ aq.parsedInterval > 0
        /\ TickDelivers(aq.parsedInterval)


(***************************************************************************)
(* Further properties of the steps                                         *)
(***************************************************************************)

\* The call the run of the step has just made.
LastCall == apiLog[Len(apiLog)]

\* C37: when SetMachineType.run expands a bare machine type name, the
\* project and zone of the machine type URL are the project and zone the same
\* call names for the instance.
C37_MachineTypeInInstanceZone ==
    (stCall.op = "run" /\ st.type = "SetMachineType"
       /\ ~machineTypeURLRegexMatch(st.MachineType)) =>
        /\ LastCall.machineType[2] = LastCall.project
        /\ LastCall.machineType[4] = LastCall.zone


(***************************************************************************)
(* The client methods that retry once (Get*, List*, Suspend, Resume,       *)
(* SimulateMaintenanceEvent)                                               *)
(***************************************************************************)

\* Pages a List* method fetches.
MaxPages == 2

\* The multiplier these methods pass to shouldRetryWithWait.
SiteMultiplier == 2

\* The shapes of the methods: GetRegion and the other Get*, ListSubnetworks
\* and the other List*, and Suspend, Resume and SimulateMaintenanceEvent,
\* which wait for the operation the call started.
SiteKinds == {"Get", "List", "Suspend"}

\* The errors of the raw call tried at these methods.
SiteErrors ==
    { ApiErr(503, {}), ApiErr(429, {}), ApiErr(400, {}), ApiErr(404, {}),
      ApiErr(403, {RateLimitExceeded}), PlainErr({}), PlainErr({GoAway}),
      PlainErr({ResetByPeer}) }

\* What the raw call can answer: a value (for a list page, with or without
\* a NextPageToken) or an error.
RawAnswers(kind, page) ==
    { [op |-> "nil", err |-> e] : e \in SiteErrors }
    \cup { [op |-> "op", err |-> NilErr] }
    \cup (IF kind = "List" /\ page < MaxPages
          THEN { [op |-> "more", err |-> NilErr] } ELSE {})

SingleRetryInit ==
    /\ Dependencies = [s \in Steps |-> {}]
    /\ RegistryEmpty
    /\ OpIdle
    /\ aq = NoPayload
    /\ PayloadIdle
    /\ QuotaIdle
    /\ StepIdle
    /\ SubnetIdle
    /\ SchedIdle
    /\ site \in [kind : SiteKinds, page : {1}]
    /\ tripper \in {"oauth", "plain"}
    /\ rpc = "call"
    /\ attempt = 0
    /\ ferr = [op |-> "nil", err |-> NilErr]
    /\ decision = [called |-> FALSE]
    /\ log = <<>>
    /\ result = [returned |-> FALSE]

\* The raw call of the method (of the page fetch): n, err := c.raw...Do().
RawCall(ans) ==
    /\ rpc = "call"
    /\ ferr' = ans
    /\ attempt' = attempt + 1
    /\ log' = Append(log, [ev |-> "call", ms |-> 0])
    /\ rpc' = "check"
    /\ UNCHANGED <<tripper, decision, result, site, notSiteVars>>

\* if shouldRetryWithWait(c.hc.Transport, err, 2)
SiteCheck(tok, r) ==
    /\ rpc = "check"
    /\ LET d == shouldRetryWithWait(tripper, tok, ferr.err, SiteMultiplier, r) IN
        /\ decision' = [called |-> TRUE, err |-> ferr.err, tok |-> tok,
                        multiplier |-> SiteMultiplier, ret |-> d.ret,
                        sleep |-> d.sleep]
        /\ IF d.ret = "panic"
           THEN /\ rpc' = "panic"
                /\ UNCHANGED log
           ELSE IF d.ret = "true"
           THEN /\ rpc' = "recall"
                /\ log' = Append(log, [ev |-> "sleep", ms |-> d.sleep])
           ELSE /\ rpc' = "settle"
                /\ UNCHANGED log
    /\ UNCHANGED <<tripper, attempt, ferr, result, site, notSiteVars>>

\* Where a method that retried as long as the error is retryable would go
\* after its second raw call.
AfterSecondCallChecksAgain == "check"

\* After the second raw call its outcome is used without another look at
\* shouldRetryWithWait.
AfterSecondCall == "settle"

\* The raw call made again inside the if.
RawCallAgain(ans) ==
    /\ rpc = "recall"
    /\ ferr' = ans
    /\ attempt' = attempt + 1
    /\ log' = Append(log, [ev |-> "call", ms |-> 0])
    /\ rpc' = AfterSecondCall
    /\ UNCHANGED <<tripper, decision, result, site, notSiteVars>>

\* What follows the if.  A Get* method returns the value and the error as
\* they are.  Suspend and its like return a non-nil error and otherwise wait
\* for the operation.  A List* method returns a non-nil error, and otherwise
\* adds the page and fetches the next page or returns the items.
SiteSettle ==
    /\ rpc = "settle"
    /\ IF site.kind = "Get"
       THEN /\ result' = [returned |-> TRUE, op |-> ferr.op, err |-> ferr.err]
            /\ rpc' = "done"
            /\ UNCHANGED <<site, attempt>>
       ELSE IF ferr.err # NilErr
       THEN /\ result' = [returned |-> TRUE, op |-> "nil", err |-> ferr.err]
            /\ rpc' = "done"
            /\ UNCHANGED <<site, attempt>>
       ELSE IF site.kind = "Suspend"
       THEN /\ rpc' = "wait"
            /\ UNCHANGED <<result, site, attempt>>
       ELSE IF ferr.op = "more"
       THEN /\ site' = [site EXCEPT !.page = @ + 1]
            /\ attempt' = 0
            /\ rpc' = "call"
            /\ UNCHANGED result
       ELSE /\ result' = [returned |-> TRUE, op |-> "items", err |-> NilErr]
            /\ rpc' = "done"
            /\ UNCHANGED <<site, attempt>>
    /\ UNCHANGED <<tripper, ferr, decision, log, notSiteVars>>

\* return c.i.zoneOperationsWait(project, zone, op.Name): the result of the
\* wait is the result of Suspend, Resume or SimulateMaintenanceEvent.
SiteWaitReturns(err) ==
    /\ rpc = "wait"
    /\ result' = [returned |-> TRUE, op |-> "nil", err |-> err]
    /\ rpc' = "done"
    /\ UNCHANGED <<tripper, attempt, ferr, decision, log, site, notSiteVars>>

SingleRetryNext ==
    \/ \E ans \in RawAnswers(site.kind, site.page) : RawCall(ans)
    \/ \E tok \in TokenAnswers(tripper), r \in RandSamples : SiteCheck(tok, r)
    \/ \E ans \in RawAnswers(site.kind, site.page) : RawCallAgain(ans)
    \/ SiteSettle
    \/ \E err \in {NilErr, PlainErr({})} : SiteWaitReturns(err)

SingleRetrySpec == SingleRetryInit /\ [][SingleRetryNext]_vars

\* The raw calls made so far.
RawCallsLogged == Cardinality({ k \in 1..Len(log) : log[k].ev = "call" })

\* C31: a Get* method, each page fetch of a List* method, and Suspend,
\* Resume and SimulateMaintenanceEvent make the raw call at most twice, the
\* second time only after shouldRetryWithWait, called with multiplier 2,
\* answered true for the error of the first; and the outcome of the second
\* call is passed on as it is, also when it is a retryable error again.
C31_SingleRetry ==
    /\ [](/\ attempt <= 2
          /\ RawCallsLogged <= 2 * site.page
          /\ decision.called => decision.multiplier = 2
          /\ attempt = 2 =>
               /\ decision.ret = "true"
               /\ decision.err # NilErr
               /\ decision.sleep \in {Backoff(r, 2) : r \in RandSamples}
                                 \cup {Backoff(r, 4) : r \in RandSamples})
    /\ [][ /\ attempt = 2 => decision' = decision
           /\ (attempt = 2 /\ ~result.returned /\ result'.returned
                 /\ rpc # "wait") =>
                /\ result'.err = ferr.err
                /\ site.kind = "Get" => result'.op = ferr.op ]_vars

\* GetRegion, answered 503 twice, has returned the second 503 after two raw
\* calls and one sleep.
C31_Witness ==
    /\ site.kind = "Get"
    /\ result.returned
    /\ result.err = ApiErr(503, {})
    /\ attempt = 2
    /\ Len(log) = 3
    /\ log[2].ev = "sleep"
    /\ decision.err = ApiErr(503, {})


(***************************************************************************)
(* WaitForAvailableQuotas.run under a fair select                          *)
(***************************************************************************)

\* The select takes a case that is ready again and again, and a GetRegion
\* call that was made returns.
QuotaRunFairSpec ==
    /\ QuotaRunInit
    /\ [][QuotaRunNext]_vars
    /\ SF_vars(SelectCancel)
    /\ SF_vars(SelectCtxDone)
    /\ WF_vars(\E ans \in RegionAnswers : GetRegion(ans))

\* Once the step context is done or Cancel has fired, run eventually returns.
ReturnsOnceCancelledOrDone ==
    (qCancel \/ qCtx # "live") ~> qResult.returned

\* C32: with a fair select and GetRegion calls that return, run eventually
\* returns once the step context is done or the workflow's Cancel has fired;
\* and while neither has happened, no GetRegion call has failed and no tick
\* has read data in which every entry is available, run has not returned.
C32_QuotaRunTermination ==
    /\ ReturnsOnceCancelledOrDone
    /\ [](( /\ ~qCancel
            /\ qCtx = "live"
            /\ ~qAvail
            /\ (qResult.returned => qResult.via # "GetRegion") )
          => ~qResult.returned)

====
